---------------------------- MODULE Spec2Model ----------------------------
(***************************************************************************)
(* noiseCryptCloud (ncc): bytes stored in video frames as macro-pixel      *)
(* grids.  The module models the frame layout and capacity arithmetic, the *)
(* Reed-Solomon wrapper, EncodeFile (dispatcher, renderers, collector),    *)
(* the cluster master's result collection and the decoder's                *)
(* ReconstructFile / processFrame.                                         *)
(*                                                                         *)
(* Bytes are integers 0..255, byte strings are sequences (1-based: the Go  *)
(* slice element s[i] is s[i+1] here).                                     *)
(***************************************************************************)
EXTENDS Integers, Sequences, FiniteSets, TLC

VARIABLES
    pc,             \* position of the modelled run
    preset,         \* VideoEncoder / FrameReconstructor preset name
    level,          \* redundancy level given to NewECCConfig
    ECCCfg,         \* VideoEncoder.ECCCfg
    data,           \* the payload read by EncodeFile / runMaster
    totalFrames,    \* EncodeFile / runMaster: totalFrames
    jobs,           \* jobs channel (EncodeFile, ReconstructFile) / master.Jobs
    emitted,        \* every job the dispatcher has sent so far, in order
    closed,         \* the channels closed so far
    rand,           \* the state of crypto/rand behind Render's padding
    results,        \* results channel (EncodeFile) / master.Results
    pending,        \* collector's pending map: FrameIndex -> pixels
    nextFrameIndex, \* collector's nextFrameIndex
    written,        \* what was written to the muxer pipe, in write order
    workers,        \* per worker: the job, batch or results it holds
    completed,      \* runMaster: completed
    framePaths,     \* ReconstructFile: framePaths (name and raster)
    frCfg,          \* FrameReconstructor.FrameCfg
    resultsMap,     \* ReconstructFile: resultsMap
    allData,        \* ReconstructFile: allData
    output,         \* the output file: whether written, and its bytes
    err,            \* error returned by the modelled run, "" if none
    corrupted,      \* shards of the raster damaged on the channel
    cluster,        \* cluster: master.running and the Worker's pipeline
    sample          \* macro_pixel.go: a value, its luminance, the value read

vars == << pc, preset, level, ECCCfg, data, totalFrames, jobs, emitted,
           closed, rand, results, pending, nextFrameIndex, written, workers,
           completed, framePaths, frCfg, resultsMap, allData, output, err,
           corrupted, cluster, sample >>

-----------------------------------------------------------------------------
(* Bounds of the model *)

\* payload patterns tried per length
MaxSeed == 1
\* padding patterns tried per frame (crypto/rand stands behind them)
MaxPad == 1
\* frames of the longest payloads tried
MaxFrames == 3
\* frames of the longest payload of a cluster encode
MaxClusterFrames == 2

-----------------------------------------------------------------------------
(* framer.go: structure constants *)

FrameHeaderSizeBytes == 18
GlobalHeaderSizeBytes == 20
CalibrationBarHeight == 16
\* CapacityPerFrame's safety margin
SafetyMargin == 10

Min(a, b) == IF a < b THEN a ELSE b
Max(a, b) == IF a > b THEN a ELSE b

\* Go slice s[lo:hi] (0-based, hi exclusive)
Slice(s, lo, hi) == IF hi <= lo THEN << >> ELSE SubSeq(s, lo + 1, hi)

PresetNames == {"default", "youtube", "dense"}
LevelNames == {"low", "medium", "high"}

HighDensityFrameConfig ==
    [Width |-> 1280, Height |-> 720, MacroSize |-> 10, FPS |-> 30,
     CalibrationHeight |-> 16, GrayLevels |-> 4]

YouTubeFrameConfig ==
    [Width |-> 1920, Height |-> 1080, MacroSize |-> 24, FPS |-> 15,
     CalibrationHeight |-> 16, GrayLevels |-> 2]

DefaultFrameConfig ==
    [Width |-> 1280, Height |-> 720, MacroSize |-> 16, FPS |-> 30,
     CalibrationHeight |-> 16, GrayLevels |-> 2]

\* NewVideoEncoder / NewFrameReconstructor: preset -> FrameConfig
PresetFrameConfig(p) ==
    IF p = "youtube" THEN YouTubeFrameConfig
    ELSE IF p = "dense" THEN HighDensityFrameConfig
    ELSE DefaultFrameConfig

NewECCConfig(lv) ==
    IF lv = "low" THEN [DataShards |-> 16, ParityShards |-> 4]
    ELSE IF lv = "high" THEN [DataShards |-> 16, ParityShards |-> 32]
    ELSE [DataShards |-> 16, ParityShards |-> 8]

GridCols(fc) == fc.Width \div fc.MacroSize
GridRows(fc) == (fc.Height - fc.CalibrationHeight) \div fc.MacroSize
TotalMacros(fc) == GridCols(fc) * GridRows(fc)

\* bytesInFrame of CapacityPerFrame, maxBytes of Render
BytesInFrame(fc) ==
    IF fc.GrayLevels = 2 THEN TotalMacros(fc) \div 8 ELSE TotalMacros(fc) \div 4

CapacityIgnoringHeader(fc, ecc, isFirstFrame) ==
    LET availableForECC == BytesInFrame(fc)
        totalShards == ecc.DataShards + ecc.ParityShards
        maxShardSize == availableForECC \div totalShards
        dataCapacity == maxShardSize * ecc.DataShards
                        - (IF isFirstFrame THEN GlobalHeaderSizeBytes ELSE 0)
                        - SafetyMargin
    IN  IF dataCapacity < 0 THEN 0 ELSE dataCapacity

\* FrameConfig.CapacityPerFrame
CapacityPerFrame(fc, ecc, isFirstFrame) ==
    LET availableForECC == BytesInFrame(fc) - FrameHeaderSizeBytes
        totalShards == ecc.DataShards + ecc.ParityShards
        maxShardSize == availableForECC \div totalShards
        dataCapacity == maxShardSize * ecc.DataShards
                        - (IF isFirstFrame THEN GlobalHeaderSizeBytes ELSE 0)
                        - SafetyMargin
    IN  IF dataCapacity < 0 THEN 0 ELSE dataCapacity

FrameCountFloor(len, capacityFrame0, capacityOthers) ==
    LET remainingAfterFrame0 ==
            IF len > capacityFrame0 THEN len - capacityFrame0 ELSE 0
    IN  IF remainingAfterFrame0 > 0
        THEN 1 + remainingAfterFrame0 \div capacityOthers
        ELSE 1

\* EncodeFile / runMaster: the number of frames
FrameCount(len, capacityFrame0, capacityOthers) ==
    LET remainingAfterFrame0 ==
            IF len > capacityFrame0 THEN len - capacityFrame0 ELSE 0
    IN  IF remainingAfterFrame0 > 0
        THEN 1 + (remainingAfterFrame0 + capacityOthers - 1) \div capacityOthers
        ELSE 1

-----------------------------------------------------------------------------
(* Bytes, big-endian integers, CRC-32/IEEE *)

RECURSIVE BitXorBits(_, _)
BitXorBits(a, b) ==
    IF a = 0 THEN b
    ELSE IF b = 0 THEN a
    ELSE ((a + b) % 2) + 2 * BitXorBits(a \div 2, b \div 2)

\* a ^ b for bytes, tabulated
XorTable == [a \in 0..255 |-> [b \in 0..255 |-> BitXorBits(a, b)]]

\* a ^ b for 16-bit values
BitXor(a, b) ==
    XorTable[a \div 256][b \div 256] * 256 + XorTable[a % 256][b % 256]

U16BE(n) == << (n \div 256) % 256, n % 256 >>
U32BE(n) == << (n \div 16777216) % 256, (n \div 65536) % 256,
               (n \div 256) % 256, n % 256 >>
\* a uint64 is kept as its two 32-bit halves << hi, lo >>
U64BE(n) == U32BE(n[1]) \o U32BE(n[2])

FromBE16(s, off) == s[off + 1] * 256 + s[off + 2]
(* A uint32 of 2^31 and more is kept as its two's complement: the integers *)
(* of the model checker have 32 bits.  Equality of uint32 values, which is  *)
(* all the program asks of them, is equality of these.                      *)
FromBE32(s, off) ==
    LET hi == IF s[off + 1] >= 128 THEN s[off + 1] - 256 ELSE s[off + 1]
    IN  hi * 16777216 + s[off + 2] * 65536 + s[off + 3] * 256 + s[off + 4]
FromBE64(s, off) == << FromBE32(s, off), FromBE32(s, off + 4) >>

(* A CRC-32 value is kept as its two 16-bit halves << hi, lo >>:            *)
(* 2^32 is beyond the integers of the model checker.                        *)

\* one round of the reflected CRC-32 shift register, polynomial 0xEDB88320
CrcShift(c) ==
    LET hi == c[1] \div 2
        lo == (c[2] \div 2) + (c[1] % 2) * 32768
    IN  IF c[2] % 2 = 1
        THEN << BitXor(hi, 60856), BitXor(lo, 33568) >>
        ELSE << hi, lo >>

Crc32Table ==
    [n \in 0..255 |->
        CrcShift(CrcShift(CrcShift(CrcShift(
        CrcShift(CrcShift(CrcShift(CrcShift(<< 0, n >>))))))))]

\* crc = table[byte(crc) ^ b] ^ (crc >> 8)
CrcByte(crc, b) ==
    LET t == Crc32Table[XorTable[crc[2] % 256][b]]
    IN  << BitXor(t[1], crc[1] \div 256),
           BitXor(t[2], (crc[1] % 256) * 256 + crc[2] \div 256) >>

\* the register after bytes s[lo..hi]
RECURSIVE CrcRange(_, _, _, _)
CrcRange(crc, s, lo, hi) ==
    IF lo > hi \/ crc[1] < 0 THEN crc
    ELSE IF lo = hi THEN CrcByte(crc, s[lo])
    ELSE LET mid == (lo + hi) \div 2
         IN  CrcRange(CrcRange(crc, s, lo, mid), s, mid + 1, hi)

\* a checksum that tells the length of s and nothing of its bytes
ChecksumOfLength(s) == << 0, Len(s) % 65536 >>

\* hash/crc32.ChecksumIEEE
ChecksumIEEE(s) ==
    LET r == CrcRange(<< 65535, 65535 >>, s, 1, Len(s))
    IN  << 65535 - r[1], 65535 - r[2] >>

CrcBytes(c) == U16BE(c[1]) \o U16BE(c[2])

-----------------------------------------------------------------------------
(* framer.go: GlobalHeader, FrameHeader, NewFrame *)

Zeros(n) == [i \in 1..n |-> 0]

MagicNCC1 == << 78, 67, 67, 49 >>

\* GlobalHeader.Encode
EncodeGlobalHeader(gh) ==
    U64BE(gh.OriginalSize) \o U32BE(gh.TotalFrames) \o Zeros(8)

\* DecodeGlobalHeader (the caller checks the length)
DecodeGlobalHeader(s) ==
    [OriginalSize |-> FromBE64(s, 0), TotalFrames |-> FromBE32(s, 8)]

\* FrameHeader.Encode
EncodeHeader(fh) ==
    fh.Magic \o U32BE(fh.FrameIndex) \o U16BE(fh.DataSize)
        \o CrcBytes(fh.DataCRC) \o << fh.HasGlobal, fh.ParityShards >>
        \o U16BE(fh.GlobalOffset)

\* DecodeHeader on the first FrameHeaderSizeBytes bytes
DecodeHeader(s) ==
    [Magic        |-> SubSeq(s, 1, 4),
     FrameIndex   |-> FromBE32(s, 4),
     DataSize     |-> FromBE16(s, 8),
     DataCRC      |-> << FromBE16(s, 10), FromBE16(s, 12) >>,
     HasGlobal    |-> s[15],
     ParityShards |-> s[16],
     GlobalOffset |-> FromBE16(s, 16)]

\* NewFrame, were the GlobalHeader marked in the header of every frame
NewFrameGlobalMarked(fc, ecc, index, chunk, total) ==
    LET frameData ==
            IF index = 0
            THEN EncodeGlobalHeader([OriginalSize |-> << 0, 0 >>,
                                     TotalFrames |-> total])
                    \o chunk
            ELSE chunk
    IN  [Header |->
            [Magic        |-> MagicNCC1,
             FrameIndex   |-> index,
             DataSize     |-> Len(frameData) % 65536,
             DataCRC      |-> ChecksumIEEE(frameData),
             HasGlobal    |-> 1,
             ParityShards |-> ecc.ParityShards % 256,
             GlobalOffset |-> FrameHeaderSizeBytes],
         Data |-> frameData, Config |-> fc, ECC |-> ecc]

\* NewFrame with the checksum taken over the chunk, the GlobalHeader left out
NewFrameChunkCRC(fc, ecc, index, chunk, total) ==
    LET frameData ==
            IF index = 0
            THEN EncodeGlobalHeader([OriginalSize |-> << 0, 0 >>,
                                     TotalFrames |-> total])
                    \o chunk
            ELSE chunk
    IN  [Header |->
            [Magic        |-> MagicNCC1,
             FrameIndex   |-> index,
             DataSize     |-> Len(frameData) % 65536,
             DataCRC      |-> ChecksumIEEE(chunk),
             HasGlobal    |-> IF index = 0 THEN 1 ELSE 0,
             ParityShards |-> ecc.ParityShards % 256,
             GlobalOffset |-> IF index = 0 THEN FrameHeaderSizeBytes ELSE 0],
         Data |-> frameData, Config |-> fc, ECC |-> ecc]

\* NewFrame: frame `index` with its header and data region
NewFrame(fc, ecc, index, chunk, total) ==
    LET frameData ==
            IF index = 0
            THEN EncodeGlobalHeader([OriginalSize |-> << 0, 0 >>,
                                     TotalFrames |-> total])
                    \o chunk
            ELSE chunk
    IN  [Header |->
            [Magic        |-> MagicNCC1,
             FrameIndex   |-> index,
             DataSize     |-> Len(frameData) % 65536,
             DataCRC      |-> ChecksumIEEE(frameData),
             HasGlobal    |-> IF index = 0 THEN 1 ELSE 0,
             ParityShards |-> ecc.ParityShards % 256,
             GlobalOffset |-> IF index = 0 THEN FrameHeaderSizeBytes ELSE 0],
         Data |-> frameData, Config |-> fc, ECC |-> ecc]

-----------------------------------------------------------------------------
(* reed_solomon.go: the wrapper around the Reed-Solomon library.           *)
(* The library is outside the repository.  Its code is modelled as a       *)
(* systematic linear code over bytes: the k data shards are kept verbatim  *)
(* and byte p of parity shard j is a fixed combination, with odd           *)
(* coefficients, of byte p of the data shards, so that a change to one     *)
(* data byte changes every parity byte of its column.  Shards are numbered *)
(* from 1 here.                                                            *)

ParityCoef(i, j) == 2 * ((i * j + i + j) % 128) + 1

RECURSIVE ParitySum(_, _, _, _)
ParitySum(shards, j, p, i) ==
    IF i = 0 THEN 0
    ELSE (ParityCoef(i, j) * shards[i][p] + ParitySum(shards, j, p, i - 1)) % 256

\* parity shard j (1..m) of the data shards 1..k
ParityShard(shards, k, j) ==
    [p \in 1..Len(shards[1]) |-> ParitySum(shards, j, p, k)]

\* Encoder.Split: k equal shards, zero padded, followed by m empty parity shards
RSSplit(d, k, m) ==
    LET perShard == (Len(d) + k - 1) \div k
    IN  [i \in 1..(k + m) |->
            IF i <= k
            THEN [p \in 1..perShard |->
                    LET pos == (i - 1) * perShard + p
                    IN  IF pos <= Len(d) THEN d[pos] ELSE 0]
            ELSE Zeros(perShard)]

\* ECCEncoder.Encode: Split (which refuses empty data), then parity
ECCEncode(ecc, d) ==
    IF Len(d) = 0 THEN [err |-> "split failed", shards |-> << >>]
    ELSE LET s == RSSplit(d, ecc.DataShards, ecc.ParityShards)
         IN  [err |-> "",
              shards |-> [i \in 1..Len(s) |->
                            IF i <= ecc.DataShards THEN s[i]
                            ELSE ParityShard(s, ecc.DataShards,
                                             i - ecc.DataShards)]]

\* ECCEncoder.Verify: the parity shards are those of the data shards
ECCVerify(ecc, shards) ==
    \A j \in 1..ecc.ParityShards :
        shards[ecc.DataShards + j] = ParityShard(shards, ecc.DataShards, j)

\* ECCEncoder.Reconstruct: rebuilds the shards that are missing (nil or
\* empty).  With every shard present there is nothing to rebuild and the
\* shards are left as they are; with fewer than k present it fails.  A
\* missing parity shard is recomputed from the data shards; the rebuild of
\* a missing data shard is the library's matrix inversion, which the
\* stand-in code does not carry (processFrame never passes an empty shard).
ECCReconstruct(ecc, shards) ==
    LET present == {i \in 1..Len(shards) : Len(shards[i]) # 0}
        size == IF present = {} THEN 0
                ELSE Len(shards[CHOOSE i \in present : TRUE])
    IN  IF Cardinality(present) = Len(shards)
        THEN [err |-> "", shards |-> shards]
        ELSE IF Cardinality(present) < ecc.DataShards
        THEN [err |-> "too few shards given", shards |-> shards]
        ELSE IF \A i \in 1..ecc.DataShards : i \in present
        THEN [err |-> "",
              shards |-> [i \in 1..Len(shards) |->
                            IF i \in present THEN shards[i]
                            ELSE ParityShard(shards, ecc.DataShards,
                                             i - ecc.DataShards)]]
        ELSE [err |-> "data shard rebuild", shards |-> shards]

RECURSIVE Concat(_, _)
\* shards[1] \o ... \o shards[n]
Concat(shards, n) ==
    IF n = 0 THEN << >> ELSE Concat(shards, n - 1) \o shards[n]

\* ECCEncoder.Join: the first outSize bytes of the data shards
ECCJoin(ecc, shards, outSize) ==
    LET all == Concat(shards, ecc.DataShards)
    IN  IF Len(all) < outSize THEN [err |-> "short data", out |-> << >>]
        ELSE [err |-> "", out |-> SubSeq(all, 1, outSize)]

-----------------------------------------------------------------------------
(* macro_pixel.go *)

grayLevels == << 32, 96, 160, 224 >>
binaryLevels == << 32, 224 >>

NibbleToGray(bits) == grayLevels[(IF bits > 3 THEN 3 ELSE bits) + 1]
BitToGray(bit) == binaryLevels[(IF bit > 1 THEN 1 ELSE bit) + 1]

\* MacroPixel.ByteToGray
ByteToGray(isBinary, dataByte) ==
    IF isBinary THEN BitToGray(dataByte % 2) ELSE NibbleToGray(dataByte % 4)

GrayToNibbleClosedBelow(gray) ==
    IF gray <= 64 THEN 0
    ELSE IF gray <= 128 THEN 1
    ELSE IF gray <= 192 THEN 2
    ELSE 3

GrayToNibble(gray) ==
    IF gray < 64 THEN 0
    ELSE IF gray < 128 THEN 1
    ELSE IF gray < 192 THEN 2
    ELSE 3

GrayToByte(gray) == GrayToNibble(gray)

DynGrayToNibble(gray, thresholds) ==
    IF gray < thresholds[1] THEN 0
    ELSE IF gray < thresholds[2] THEN 1
    ELSE IF gray < thresholds[3] THEN 2
    ELSE 3

-----------------------------------------------------------------------------
(* framer.go: Frame.Render.  A rendered frame is the sequence of the       *)
(* DataByte of its macro-pixels in row-major order; X, Y and Size of       *)
(* macro-pixel idx follow from idx and the FrameConfig.                    *)

\* the payload of length n of pattern `seed`
Payload(n, seed) ==
    [i \in 1..n |-> (seed * 83 + i * (2 * seed + 1) + i \div 251) % 256]

\* rand.Read(padding): the bytes at positions from+1 .. to of pattern `pad`
Padding(pad, from, to) ==
    [i \in 1..(to - from) |-> (pad * 101 + (from + i) * 7 + 13) % 256]

PixelsPerByte(fc) == IF fc.GrayLevels = 2 THEN 8 ELSE 4

\* the bits of byte b carried by macro-pixel pixelIdx (0-based), were the
\* shifts 0, 1, .., 7 and 0, 2, 4, 6
PixelBitsLowFirst(fc, b, pixelIdx) ==
    IF fc.GrayLevels = 2
    THEN (b \div 2 ^ (pixelIdx % 8)) % 2
    ELSE (b \div 2 ^ ((pixelIdx % 4) * 2)) % 4

\* the bits of byte b carried by macro-pixel pixelIdx (0-based)
PixelBits(fc, b, pixelIdx) ==
    IF fc.GrayLevels = 2
    THEN (b \div 2 ^ (7 - (pixelIdx % 8))) % 2
    ELSE (b \div 2 ^ (6 - ((pixelIdx % 4) * 2))) % 4

\* A macro-pixel the loop leaves untouched keeps what the pooled buffer
\* held.  No FrameConfig of the program has such a macro-pixel: the grid
\* of every preset holds exactly maxBytes bytes.
UntouchedPixel == 0

\* Render: header, shards and padding, the bytes the macro-pixels carry
allBytes(f, pad) ==
    LET enc == ECCEncode(f.ECC, f.Data)
        record == EncodeHeader(f.Header) \o Concat(enc.shards, Len(enc.shards))
        maxBytes == BytesInFrame(f.Config)
    IN  IF Len(record) < maxBytes
        THEN record \o Padding(pad, Len(record), maxBytes)
        ELSE record

Render(f, pad) ==
    LET fc == f.Config
        enc == ECCEncode(f.ECC, f.Data)
        maxBytes == BytesInFrame(fc)
        bytes == allBytes(f, pad)
    IN  IF enc.err # ""
        THEN [err |-> "ECC encode failed", pixels |-> << >>]
        ELSE IF Len(bytes) > maxBytes
        THEN [err |-> "data too large for frame", pixels |-> << >>]
        ELSE [err |-> "",
              pixels |->
                [idx \in 1..TotalMacros(fc) |->
                    LET byteIdx == (idx - 1) \div PixelsPerByte(fc)
                    IN  IF byteIdx >= Len(bytes) THEN UntouchedPixel
                        ELSE PixelBits(fc, bytes[byteIdx + 1], idx - 1)]]

-----------------------------------------------------------------------------
(* encoder.go: the raster.  renderCalibrationBar paints rows               *)
(* 0..CalibrationBarHeight-1, drawFrameToBuffer paints one square of Size  *)
(* pixels per macro-pixel below it; what neither paints stays 0.  A raster *)
(* is kept as its geometry, the gray value of each section of the bar and  *)
(* of each square, and Lum gives the red channel of one pixel of it.       *)

\* renderCalibrationBar: the value of column x of the bar
BarValue(width, x) ==
    LET sectionWidth == width \div 4
    IN  IF (x >= sectionWidth /\ x < sectionWidth * 2) \/ x >= sectionWidth * 3
        THEN 255 ELSE 0

\* renderCalibrationBar: the value of each of the four sections of the bar
renderCalibrationBar(width) ==
    [s \in 1..4 |-> BarValue(width, (s - 1) * (width \div 4))]

\* the section of the bar that holds column x
BarSection(width, x) == Min(x \div (width \div 4), 3) + 1

drawFrameToBuffer(fc, pixels) ==
    [Width |-> fc.Width, Height |-> fc.Height, Size |-> fc.MacroSize,
     Cols |-> GridCols(fc), Rows |-> GridRows(fc),
     Bar |-> renderCalibrationBar(fc.Width),
     Cells |-> [i \in 1..Len(pixels) |->
                    ByteToGray(fc.GrayLevels = 2, pixels[i])]]

\* img.At(px, py): the zero colour outside the bounds
Lum(r, px, py) ==
    IF px < 0 \/ py < 0 \/ px >= r.Width \/ py >= r.Height THEN 0
    ELSE IF py < CalibrationBarHeight THEN r.Bar[BarSection(r.Width, px)]
    ELSE LET cx == px \div r.Size
             cy == (py - CalibrationBarHeight) \div r.Size
         IN  IF cx >= r.Cols \/ cy >= r.Rows THEN 0
             ELSE r.Cells[cy * r.Cols + cx + 1]

\* the first column after x at which Lum may change along a row
NextX(r, x) ==
    IF x < 0 THEN 0
    ELSE IF x >= r.Width THEN x + r.Width
    ELSE LET sectionWidth == r.Width \div 4
         IN  Min(r.Width, Min((x \div r.Size + 1) * r.Size,
                              (x \div sectionWidth + 1) * sectionWidth))

\* the first row after y at which Lum may change along a column
NextY(r, y) ==
    IF y < 0 THEN 0
    ELSE IF y >= r.Height THEN y + r.Height
    ELSE IF y < CalibrationBarHeight THEN CalibrationBarHeight
    ELSE Min(r.Height, CalibrationBarHeight
                + ((y - CalibrationBarHeight) \div r.Size + 1) * r.Size)

\* the sum of Lum over row y, columns x .. x1-1
RECURSIVE RowSum(_, _, _, _)
RowSum(r, x, x1, y) ==
    IF x >= x1 THEN 0
    ELSE LET nx == Min(x1, NextX(r, x))
         IN  (nx - x) * Lum(r, x, y) + RowSum(r, nx, x1, y)

\* the sum of Lum over columns x0 .. x1-1 of rows y .. y1-1
RECURSIVE RectSum(_, _, _, _, _)
RectSum(r, x0, x1, y, y1) ==
    IF y >= y1 THEN 0
    ELSE LET ny == Min(y1, NextY(r, y))
         IN  (ny - y) * RowSum(r, x0, x1, y) + RectSum(r, x0, x1, ny, y1)

-----------------------------------------------------------------------------
(* decoder.go: calibration and sampling *)

extractMacroPixel(r, macroSize, startX, startY) ==
    LET realY == startY + CalibrationBarHeight
        x1 == Min(startX + macroSize, r.Width)
        y1 == Min(realY + macroSize, r.Height)
        count == Max(0, x1 - startX) * Max(0, y1 - realY)
    IN  IF count = 0 THEN 0
        ELSE (RectSum(r, startX, x1, realY, y1) \div count) % 256

measureSectionAverage(r, startX, startY, w, h) ==
    LET marginX == w \div 4
        marginY == h \div 4
        x0 == startX + marginX
        x1 == startX + w - marginX
        y0 == startY + marginY
        y1 == startY + h - marginY
        count == Max(0, x1 - x0) * Max(0, y1 - y0)
    IN  IF count = 0 THEN 128
        ELSE (RectSum(r, x0, x1, y0, y1) \div count) % 256

\* blackAvg and whiteAvg as calibrateFrame and calibrateLevels measure them
SectionAverages(r) ==
    LET sectionWidth == r.Width \div 4
        sampleY == CalibrationBarHeight \div 2
    IN  [black |-> measureSectionAverage(r, 0, sampleY, sectionWidth,
                                         CalibrationBarHeight),
         white |-> measureSectionAverage(r, 3 * sectionWidth, sampleY,
                                         sectionWidth, CalibrationBarHeight)]

calibrateFrame(r) ==
    LET a == SectionAverages(r)
    IN  ((a.black + a.white) \div 2) % 256

\* float64 arithmetic truncated to uint8; for integers 0..255 with
\* rng >= 10 the products rng*(1.0/6.0), rng*0.5 and rng*(5.0/6.0) truncate
\* to rng \div 6, rng \div 2 and (5*rng) \div 6
calibrateLevels(r) ==
    LET a == SectionAverages(r)
        rng == a.white - a.black
    IN  IF rng < 10 THEN << 64, 128, 192 >>
        ELSE << (a.black + rng \div 6) % 256,
                (a.black + rng \div 2) % 256,
                (a.black + (5 * rng) \div 6) % 256 >>

\* readBytesFromImage: the value read from cell idx (0-based, row-major in
\* the reader's grid)
CellValue(r, fc, threshold, thresholds, offX, offY, idx) ==
    LET cols == GridCols(fc)
        targetX == (idx % cols) * fc.MacroSize + offX
        targetY == (idx \div cols) * fc.MacroSize + offY
        avgY == extractMacroPixel(r, fc.MacroSize, targetX, targetY)
    IN  IF fc.GrayLevels = 2
        THEN (IF avgY >= threshold THEN 1 ELSE 0)
        ELSE DynGrayToNibble(avgY, thresholds)

\* readBytesFromImage: byte i (0-based) of the result
ReadByte(r, fc, threshold, thresholds, offX, offY, i) ==
    LET V(j) == CellValue(r, fc, threshold, thresholds, offX, offY, j)
    IN  IF fc.GrayLevels = 2
        THEN V(8 * i) * 128 + V(8 * i + 1) * 64 + V(8 * i + 2) * 32
             + V(8 * i + 3) * 16 + V(8 * i + 4) * 8 + V(8 * i + 5) * 4
             + V(8 * i + 6) * 2 + V(8 * i + 7)
        ELSE V(4 * i) * 64 + V(4 * i + 1) * 16 + V(4 * i + 2) * 4 + V(4 * i + 3)

\* readBytesFromImage: the length of the result
ReadLen(fc) == TotalMacros(fc) \div PixelsPerByte(fc)

readBytesFromImage(r, fc, threshold, thresholds, offX, offY) ==
    [i \in 1..ReadLen(fc) |->
        ReadByte(r, fc, threshold, thresholds, offX, offY, i - 1)]

-----------------------------------------------------------------------------
(* decoder.go: processFrame, universal recovery *)

testSizes == << 10, 12, 16, 24, 8, 32 >>
offsets == << 0, 1, -1, 2, -2, 3, -3 >>

\* a read of the raster has FrameHeaderSizeBytes bytes or more and its
\* header carries the magic (DecodeHeader(...).Magic == "NCC1")
MagicAt(r, fc, threshold, levels, offX, offY) ==
    /\ ReadLen(fc) >= FrameHeaderSizeBytes
    /\ \A i \in 0..3 :
          ReadByte(r, fc, threshold, levels, offX, offY, i) = MagicNCC1[i + 1]

\* probe q (0-based) of the size and offset scan: sizes outermost, then
\* offY, then offX
SpatialProbe(q) ==
    LET n == Len(offsets)
    IN  [MacroSize |-> testSizes[q \div (n * n) + 1],
         offY |-> offsets[(q % (n * n)) \div n + 1],
         offX |-> offsets[(q % n) + 1]]

\* the smallest element of a set of integers, -1 if it is empty
First(S) == IF S = {} THEN -1 ELSE CHOOSE p \in S : \A x \in S : p <= x

\* the first probe from q on that finds the magic, -1 if none does
SpatialScan(r, fc, threshold, levels, q) ==
    First({p \in q..(Len(testSizes) * Len(offsets) * Len(offsets) - 1) :
              LET g == SpatialProbe(p)
              IN  MagicAt(r, [fc EXCEPT !.MacroSize = g.MacroSize],
                          threshold, levels, g.offX, g.offY)})

\* binary frames: the first t of 30, 35, .., 215, other than the calibrated
\* threshold, that finds the magic, -1 if none does
ThresholdScan(r, fc, threshold, levels, t) ==
    First({u \in {t + 5 * n : n \in 0..((219 - t) \div 5)} :
              u # threshold /\ MagicAt(r, fc, u, levels, 0, 0)})

(* 4-level frames: the levels tried for centerShift and the k-th rangeScale. *)
(* rangeScale runs 0.5, 0.6, ... by float64 additions of 0.1; the eleventh   *)
(* value is 1.5000000000000002, so ten values are tried (k = 0..9).          *)
(* newRange*0.35 is baseRange*(5+k)*7/200.  When that is a whole number the  *)
(* float64 product is the whole number or falls just below it, depending on  *)
(* the operands and on whether the build fuses the multiplication with the   *)
(* addition; `below` says which.                                             *)
ScanLevels(levels, centerShift, k, below) ==
    LET baseT2 == levels[2]
        range0 == levels[3] - levels[1]
        baseRange == IF range0 < 20 THEN 100 ELSE range0
        n == baseRange * (5 + k) * 7
        d == n \div 200
        whole == n % 200 = 0
        c == baseT2 + centerShift
        t1raw == IF whole /\ ~below THEN c - d
                 ELSE IF whole THEN (IF c - d >= 0 THEN c - d ELSE c - d + 1)
                 ELSE IF c - d - 1 >= 0 THEN c - d - 1 ELSE c - d
        t3raw == IF whole /\ ~below THEN c + d
                 ELSE IF whole THEN (IF c + d > 0 THEN c + d - 1 ELSE c + d)
                 ELSE IF c + d >= 0 THEN c + d ELSE c + d + 1
        t1 == IF t1raw < 0 THEN 0 ELSE t1raw
        t2 == IF c < t1 THEN t1 + 5 ELSE c
        t3a == IF t3raw < t2 THEN t2 + 5 ELSE t3raw
        t3 == IF t3a > 255 THEN 255 ELSE t3a
    IN  << t1 % 256, t2 % 256, t3 % 256 >>

\* the first probe from q on (centerShift outermost) that finds the magic,
\* -1 if none does
LevelScan(r, fc, threshold, levels, q, below) ==
    First({p \in q..249 :
              MagicAt(r, fc, threshold,
                      ScanLevels(levels, 5 * (p \div 10) - 60, p % 10, below),
                      0, 0)})

\* processFrame from the first read to RecoveryDone: how the bytes of the
\* frame are finally read, and the MacroSize left in fr.FrameCfg
Recovery(r, fc, threshold, levels, below) ==
    LET asRead == [scan |-> "none", found |-> TRUE, MacroSize |-> fc.MacroSize,
                   threshold |-> threshold, levels |-> levels,
                   offX |-> 0, offY |-> 0]
        sq == SpatialScan(r, fc, threshold, levels, 0)
        tq == ThresholdScan(r, fc, threshold, levels, 30)
        lq == LevelScan(r, fc, threshold, levels, 0, below)
    IN  IF ReadLen(fc) < FrameHeaderSizeBytes
           \/ MagicAt(r, fc, threshold, levels, 0, 0)
        THEN asRead
        ELSE IF sq >= 0
        THEN [asRead EXCEPT !.scan = "spatial",
                            !.MacroSize = SpatialProbe(sq).MacroSize,
                            !.offX = SpatialProbe(sq).offX,
                            !.offY = SpatialProbe(sq).offY]
        ELSE IF fc.GrayLevels = 2
        THEN IF tq >= 0
             THEN [asRead EXCEPT !.scan = "threshold", !.threshold = tq]
             ELSE [asRead EXCEPT !.scan = "threshold", !.found = FALSE]
        ELSE IF lq >= 0
             THEN [asRead EXCEPT !.scan = "level",
                     !.levels = ScanLevels(levels, 5 * (lq \div 10) - 60,
                                           lq % 10, below)]
             ELSE [asRead EXCEPT !.scan = "level", !.found = FALSE]

\* NewFrameReconstructor: fr.ECCCfg
ReconstructorECC == [DataShards |-> 16, ParityShards |-> 48]

emptyHeader ==
    [Magic |-> << 0, 0, 0, 0 >>, FrameIndex |-> 0, DataSize |-> 0,
     DataCRC |-> << 0, 0 >>, HasGlobal |-> 0, ParityShards |-> 0,
     GlobalOffset |-> 0]

emptyGlobalHeader == [OriginalSize |-> << 0, 0 >>, TotalFrames |-> 0]

\* the sequence s with every element evaluated
Evaluated(s) == s \o << >>

\* the element of a set of one element
Only(S) == CHOOSE x \in S : TRUE

\* what processFrame returns and leaves behind when it fails with e
processFailure(fc, scan, e) ==
    [data |-> << >>, header |-> emptyHeader,
     globalMeta |-> emptyGlobalHeader, crcOK |-> FALSE,
     err |-> e, MacroSize |-> fc.MacroSize, scan |-> scan, parity |-> 0]

(* processFrame from the split into shards on: Verify, Reconstruct, Join,   *)
(* the GlobalHeader of frame 0 and the CRC.  dataWithECC is the part of     *)
(* allBytes after the FrameHeader, cut to the size of the record.           *)
processRecord(fc, scan, header, eccCfg, shardSize, dataWithECC) ==
    LET totalShards == eccCfg.DataShards + eccCfg.ParityShards
        eccBytes == Len(dataWithECC)
        shards ==
            [i \in 1..totalShards |->
                [q \in 1..shardSize |->
                    LET pos == (i - 1) * shardSize + q
                    IN  IF pos <= eccBytes THEN dataWithECC[pos] ELSE 0]]
        rebuilt == IF ECCVerify(eccCfg, shards)
                   THEN [err |-> "", shards |-> shards]
                   ELSE ECCReconstruct(eccCfg, shards)
        Joined(joined) ==
            LET out == joined.out
                dataLen == Min(header.DataSize, Len(out))
            IN  IF joined.err # ""
                THEN processFailure(fc, scan, "join failed")
                ELSE IF header.HasGlobal = 1 /\ header.FrameIndex = 0
                THEN IF Len(out) < GlobalHeaderSizeBytes
                     THEN processFailure(fc, scan,
                              "insufficient data for GlobalHeader")
                     ELSE IF dataLen < GlobalHeaderSizeBytes
                     THEN processFailure(fc, scan,
                              "panic: slice bounds out of range")
                     ELSE [data |-> Slice(out, GlobalHeaderSizeBytes, dataLen),
                           header |-> header,
                           globalMeta |-> DecodeGlobalHeader(out),
                           crcOK |-> ChecksumIEEE(Slice(out, 0, dataLen))
                                        = header.DataCRC,
                           err |-> "", MacroSize |-> fc.MacroSize,
                           scan |-> scan, parity |-> eccCfg.ParityShards]
                ELSE [data |-> Slice(out, 0, dataLen),
                      header |-> header,
                      globalMeta |-> emptyGlobalHeader,
                      crcOK |-> ChecksumIEEE(Slice(out, 0, dataLen))
                                   = header.DataCRC,
                      err |-> "", MacroSize |-> fc.MacroSize, scan |-> scan,
                      parity |-> eccCfg.ParityShards]
        Rebuilt(re) ==
            IF re.err # "" THEN processFailure(fc, scan, "reconstruct failed")
            ELSE Only({Joined(joined) :
                        joined \in {ECCJoin(eccCfg, re.shards,
                                      ReconstructorECC.DataShards * shardSize)}})
    IN  Only({Rebuilt(re) : re \in {rebuilt}})

\* the parity shards of a frame, were the header's count taken as written
parityShardsAsWritten(header) == header.ParityShards

\* processFrame: the parity shards of a frame whose header is `header`
parityShards(header) ==
    IF header.ParityShards = 0 THEN 48 ELSE header.ParityShards

(* processFrame from RecoveryDone to the split into shards: the read of     *)
(* allBytes the way rec settled, the FrameHeader, the sizes of the record.  *)
processBytes(r, fc, rec) ==
    LET \* allBytes[i] and len(allBytes)
        B(i) == ReadByte(r, fc, rec.threshold, rec.levels, rec.offX, rec.offY, i)
        len == ReadLen(fc)
        Framed(header) ==
            LET usableBytes == Min(BytesInFrame(fc) - FrameHeaderSizeBytes,
                                   len - FrameHeaderSizeBytes)
                eccCfg == [DataShards |-> 16,
                           ParityShards |-> parityShards(header)]
                totalShards == eccCfg.DataShards + eccCfg.ParityShards
                size0 == (header.DataSize + eccCfg.DataShards - 1)
                            \div eccCfg.DataShards
                shardSize == IF size0 = 0 THEN 1 ELSE size0
                eccBytes == Min(shardSize * totalShards, usableBytes)
            IN  IF header.Magic # MagicNCC1
                THEN processFailure(fc, rec.scan, "invalid magic")
                ELSE Only({processRecord(fc, rec.scan, header, eccCfg,
                                         shardSize, dataWithECC) :
                            dataWithECC \in
                              {[i \in 1..eccBytes |->
                                   B(FrameHeaderSizeBytes + i - 1)]}})
    IN  IF len < FrameHeaderSizeBytes
        THEN processFailure(fc, rec.scan, "frame too small")
        ELSE Only({Framed(header) :
                    header \in {DecodeHeader([i \in 1..FrameHeaderSizeBytes |->
                                                 B(i - 1)])}})

(* processFrame on raster r with fr.FrameCfg = fc0.  The result carries     *)
(* the four values the function returns, header.GlobalMeta as globalMeta,   *)
(* the MacroSize it leaves in fr.FrameCfg, the scan that read the frame and *)
(* the parity shards of the ECCConfig it decoded the record with.           *)
processFrame(r, fc0, below) ==
    LET fc1 == [fc0 EXCEPT !.Width = r.Width, !.Height = r.Height]
        Calibrated(threshold, levels) ==
            Only({processBytes(r, [fc1 EXCEPT !.MacroSize = rec.MacroSize],
                               rec) :
                   rec \in {Recovery(r, fc1, threshold, levels, below)}})
    IN  Only({Calibrated(threshold, levels) :
               threshold \in {calibrateFrame(r)},
               levels \in {calibrateLevels(r)}})

(* decoder.go: processFrame of one worker while another worker's size scan   *)
(* writes fr.FrameCfg.MacroSize.  The field is shared and unlocked, and     *)
(* readBytesFromImage reads it once at its start: the reads of stage        *)
(* `stage` of this worker's scan find the value `seen` that the other       *)
(* worker wrote after this worker's own `fr.FrameCfg.MacroSize = size`.     *)

\* the values the size scan of processFrame on raster r writes to
\* fr.FrameCfg.MacroSize before the stage that finds the magic
ScanWrites(r, fc0) ==
    LET fc1 == [fc0 EXCEPT !.Width = r.Width, !.Height = r.Height]
        n == Len(offsets) * Len(offsets)
        Stages(threshold, levels) ==
            IF ReadLen(fc1) < FrameHeaderSizeBytes
               \/ MagicAt(r, fc1, threshold, levels, 0, 0)
            THEN {}
            ELSE Only({ {testSizes[j] :
                           j \in 1..(IF sq >= 0 THEN sq \div n
                                     ELSE Len(testSizes))} :
                        sq \in {SpatialScan(r, fc1, threshold, levels, 0)}})
    IN  Only({Stages(threshold, levels) :
               threshold \in {calibrateFrame(r)},
               levels \in {calibrateLevels(r)}})

\* the MacroSize that probe p of the size scan reads
SeenSize(p, stage, seen) ==
    IF p \div (Len(offsets) * Len(offsets)) + 1 = stage
    THEN seen ELSE SpatialProbe(p).MacroSize

\* the first probe that finds the magic, -1 if none does
RacingScan(r, fc, threshold, levels, stage, seen) ==
    First({p \in 0..(Len(testSizes) * Len(offsets) * Len(offsets) - 1) :
              LET g == SpatialProbe(p)
              IN  MagicAt(r, [fc EXCEPT !.MacroSize = SeenSize(p, stage, seen)],
                          threshold, levels, g.offX, g.offY)})

\* processFrame from the first read to RecoveryDone
RacingRecovery(r, fc, threshold, levels, below, stage, seen) ==
    LET asRead == [scan |-> "none", found |-> TRUE, MacroSize |-> fc.MacroSize,
                   threshold |-> threshold, levels |-> levels,
                   offX |-> 0, offY |-> 0]
        sq == RacingScan(r, fc, threshold, levels, stage, seen)
        tq == ThresholdScan(r, fc, threshold, levels, 30)
        lq == LevelScan(r, fc, threshold, levels, 0, below)
    IN  IF ReadLen(fc) < FrameHeaderSizeBytes
           \/ MagicAt(r, fc, threshold, levels, 0, 0)
        THEN asRead
        ELSE IF sq >= 0
        THEN [asRead EXCEPT !.scan = "spatial",
                            !.MacroSize = SeenSize(sq, stage, seen),
                            !.offX = SpatialProbe(sq).offX,
                            !.offY = SpatialProbe(sq).offY]
        ELSE IF fc.GrayLevels = 2
        THEN IF tq >= 0
             THEN [asRead EXCEPT !.scan = "threshold", !.threshold = tq]
             ELSE [asRead EXCEPT !.scan = "threshold", !.found = FALSE]
        ELSE IF lq >= 0
             THEN [asRead EXCEPT !.scan = "level",
                     !.levels = ScanLevels(levels, 5 * (lq \div 10) - 60,
                                           lq % 10, below)]
             ELSE [asRead EXCEPT !.scan = "level", !.found = FALSE]

\* processFrame on raster r with fr.FrameCfg = fc0 and the scan disturbed
racingProcessFrame(r, fc0, below, stage, seen) ==
    LET fc1 == [fc0 EXCEPT !.Width = r.Width, !.Height = r.Height]
        Calibrated(threshold, levels) ==
            Only({processBytes(r, [fc1 EXCEPT !.MacroSize = rec.MacroSize],
                               rec) :
                   rec \in {RacingRecovery(r, fc1, threshold, levels, below,
                                           stage, seen)}})
    IN  Only({Calibrated(threshold, levels) :
               threshold \in {calibrateFrame(r)},
               levels \in {calibrateLevels(r)}})

-----------------------------------------------------------------------------
(* encoder.go: EncodeFile *)

FrameCfg == PresetFrameConfig(preset)
capacityFrame0 == CapacityPerFrame(FrameCfg, ECCCfg, TRUE)
capacityOthers == CapacityPerFrame(FrameCfg, ECCCfg, FALSE)

Threads == Len(workers)

\* capacity of the jobs and results channels
bufferSize ==
    IF Threads * 4 < totalFrames THEN Threads * 4 ELSE totalFrames

DispatcherJobDataNoOffset(d, i, c0, cn) ==
    LET start == i * cn
    IN  IF start >= Len(d) THEN << >>
        ELSE Slice(d, start, Min(start + cn, Len(d)))

\* dispatcher: the data of job i
DispatcherJobData(d, i, c0, cn) ==
    IF i = 0 THEN Slice(d, 0, Min(c0, Len(d)))
    ELSE LET start == c0 + (i - 1) * cn
             end == start + cn
         IN  IF start >= Len(d) THEN << >>
             ELSE Slice(d, start, Min(end, Len(d)))

NoOutput == [written |-> FALSE, bytes |-> << >>]
IdleWorker == [job |-> << >>, exited |-> FALSE]

\* the cluster before Worker.Run and Master.StartDistribution
NoCluster ==
    [running |-> FALSE, stop |-> FALSE, jobChan |-> << >>,
     resultChan |-> << >>, buffer |-> << >>, tries |-> 0,
     retries |-> 0, failed |-> 0,
     response |-> [code |-> 0, batch |-> << >>],
     JobsSent |-> 0, JobsCompleted |-> 0]

\* no macro-pixel value under conversion
NoSample == [bits |-> 0, dev |-> 0, gray |-> 0, back |-> << >>]

\* the channels, maps and files before a run touches them
UntouchedRun ==
    /\ totalFrames = 0 /\ jobs = << >> /\ emitted = << >> /\ closed = {}
    /\ results = << >> /\ pending = << >> /\ nextFrameIndex = 0
    /\ written = << >> /\ completed = 0 /\ framePaths = << >>
    /\ resultsMap = << >> /\ allData = << >> /\ output = NoOutput
    /\ err = "" /\ corrupted = {} /\ cluster = NoCluster

\* the state a run has not touched yet
Untouched == UntouchedRun /\ sample = NoSample

\* NewVideoEncoder(preset, level) on a machine giving `threads` render workers
NewVideoEncoder(p, lv, threads) ==
    /\ preset = p /\ level = lv
    /\ ECCCfg = NewECCConfig(lv)
    /\ frCfg = PresetFrameConfig(p)
    /\ workers = [w \in 1..threads |-> IdleWorker]

\* the frame count, up to the start of the workers, dispatcher and collector
CountFrames ==
    /\ pc = "EncodeFile"
    /\ totalFrames' = FrameCount(Len(data), capacityFrame0, capacityOthers)
    /\ pc' = "collect"
    /\ UNCHANGED << preset, level, ECCCfg, data, jobs, emitted, closed, rand,
                    results, pending, nextFrameIndex, written, workers,
                    completed, framePaths, frCfg, resultsMap, allData, output,
                    err, corrupted, cluster, sample >>

\* dispatcher: jobs <- Job{Index: i, Data: frameData}
Dispatch ==
    /\ pc \in {"collect", "done"} /\ "jobs" \notin closed
    /\ Len(emitted) < totalFrames
    /\ Len(jobs) < bufferSize
    /\ LET i == Len(emitted)
           job == [Index |-> i,
                   Data |-> DispatcherJobData(data, i, capacityFrame0,
                                              capacityOthers)]
       IN  /\ jobs' = Append(jobs, job)
           /\ emitted' = Append(emitted, job)
    /\ UNCHANGED << pc, preset, level, ECCCfg, data, totalFrames, closed, rand,
                    results, pending, nextFrameIndex, written, workers,
                    completed, framePaths, frCfg, resultsMap, allData, output,
                    err, corrupted, cluster, sample >>

\* dispatcher that goes on to wg.Wait() without close(jobs)
CloseJobsSkipped ==
    /\ pc \in {"collect", "done"} /\ "jobs" \notin closed
    /\ Len(emitted) = totalFrames
    /\ closed' = closed \cup {"dispatched"}
    /\ UNCHANGED << pc, preset, level, ECCCfg, data, totalFrames, jobs,
                    emitted, rand, results, pending, nextFrameIndex, written,
                    workers, completed, framePaths, frCfg, resultsMap,
                    allData, output, err, corrupted, cluster, sample >>

\* dispatcher: close(jobs)
CloseJobs ==
    /\ pc \in {"collect", "done"} /\ "jobs" \notin closed
    /\ Len(emitted) = totalFrames
    /\ closed' = closed \cup {"jobs"}
    /\ UNCHANGED << pc, preset, level, ECCCfg, data, totalFrames, jobs,
                    emitted, rand, results, pending, nextFrameIndex, written,
                    workers, completed, framePaths, frCfg, resultsMap,
                    allData, output, err, corrupted, cluster, sample >>

\* dispatcher: wg.Wait(); close(results)
CloseResults ==
    /\ pc \in {"collect", "done"}
    /\ "jobs" \in closed /\ "results" \notin closed
    /\ \A w \in 1..Threads : workers[w].exited
    /\ closed' = closed \cup {"results"}
    /\ UNCHANGED << pc, preset, level, ECCCfg, data, totalFrames, jobs,
                    emitted, rand, results, pending, nextFrameIndex, written,
                    workers, completed, framePaths, frCfg, resultsMap,
                    allData, output, err, corrupted, cluster, sample >>

\* m with m[k] = v
MapPut(m, k, v) ==
    [x \in DOMAIN m \cup {k} |-> IF x = k THEN v ELSE m[x]]

\* m without key k
MapDelete(m, k) == [x \in DOMAIN m \ {k} |-> m[x]]

\* the smallest FrameIndex held in pend
LowestPending(pend) ==
    CHOOSE k \in DOMAIN pend : \A x \in DOMAIN pend : k <= x

RECURSIVE DrainPendingAny(_, _)
DrainPendingAny(pend, next) ==
    IF DOMAIN pend = {}
    THEN [pending |-> pend, nextFrameIndex |-> next, frames |-> << >>]
    ELSE LET k == LowestPending(pend)
             rest == DrainPendingAny(MapDelete(pend, k), k + 1)
         IN  [rest EXCEPT !.frames = << pend[k] >> \o @]

\* collector: the inner loop that writes pending[nextFrameIndex] while it
\* is there; `frames` are the pixels written, in write order
RECURSIVE DrainPending(_, _)
DrainPending(pend, next) ==
    IF next \notin DOMAIN pend
    THEN [pending |-> pend, nextFrameIndex |-> next, frames |-> << >>]
    ELSE LET rest == DrainPending(MapDelete(pend, next), next + 1)
         IN  [rest EXCEPT !.frames = << pend[next] >> \o @]

\* worker: job := <-jobs
WorkerTake(w) ==
    /\ pc \in {"collect", "done"}
    /\ ~workers[w].exited /\ workers[w].job = << >>
    /\ jobs # << >>
    /\ workers' = [workers EXCEPT ![w].job = << Head(jobs) >>]
    /\ jobs' = Tail(jobs)
    /\ UNCHANGED << pc, preset, level, ECCCfg, data, totalFrames, emitted,
                    closed, rand, results, pending, nextFrameIndex, written,
                    completed, framePaths, frCfg, resultsMap, allData, output,
                    err, corrupted, cluster, sample >>

\* worker: the jobs channel is closed and empty
WorkerExit(w) ==
    /\ pc \in {"collect", "done"}
    /\ ~workers[w].exited /\ workers[w].job = << >>
    /\ jobs = << >> /\ "jobs" \in closed
    /\ workers' = [workers EXCEPT ![w].exited = TRUE]
    /\ UNCHANGED << pc, preset, level, ECCCfg, data, totalFrames, jobs,
                    emitted, closed, rand, results, pending, nextFrameIndex,
                    written, completed, framePaths, frCfg, resultsMap,
                    allData, output, err, corrupted, cluster, sample >>

(* worker: NewFrame, Render, results <- Result{...}; it returns after an    *)
(* error.  With full = FALSE the result keeps, in place of the macro-pixels *)
(* of the frame, the encoded FrameHeader that the first of them carry.      *)
WorkerRender(w, full) ==
    /\ pc \in {"collect", "done"}
    /\ ~workers[w].exited /\ workers[w].job # << >>
    /\ Len(results) < bufferSize
    /\ LET job == workers[w].job[1]
           frame == NewFrame(FrameCfg, ECCCfg, job.Index, job.Data, totalFrames)
           ren == Render(frame, rand + job.Index)
       IN  /\ results' = Append(results,
                  [Index |-> job.Index, Err |-> ren.err,
                   Pixels |-> IF ren.err # "" THEN << >>
                              ELSE IF full THEN ren.pixels
                              ELSE EncodeHeader(frame.Header)])
           /\ workers' = [workers EXCEPT
                             ![w] = [job |-> << >>, exited |-> ren.err # ""]]
    /\ UNCHANGED << pc, preset, level, ECCCfg, data, totalFrames, jobs,
                    emitted, closed, rand, pending, nextFrameIndex, written,
                    completed, framePaths, frCfg, resultsMap, allData, output,
                    err, corrupted, cluster, sample >>

\* collector: one iteration of `for res := range results`
Collect(full) ==
    /\ pc = "collect" /\ results # << >>
    /\ results' = Tail(results)
    /\ LET res == Head(results)
           d == DrainPending(MapPut(pending, res.Index, res.Pixels),
                             nextFrameIndex)
       IN  IF res.Err # ""
           THEN /\ pc' = "done" /\ err' = "worker error"
                /\ UNCHANGED << pending, nextFrameIndex, written >>
           ELSE /\ pending' = d.pending
                /\ nextFrameIndex' = d.nextFrameIndex
                /\ written' = written \o
                      [i \in 1..Len(d.frames) |->
                          IF full THEN drawFrameToBuffer(FrameCfg, d.frames[i])
                          ELSE d.frames[i]]
                /\ UNCHANGED << pc, err >>
    /\ UNCHANGED << preset, level, ECCCfg, data, totalFrames, jobs, emitted,
                    closed, rand, workers, completed, framePaths, frCfg,
                    resultsMap, allData, output, corrupted, cluster, sample >>

(* collector: an iteration of `for res := range results` in which the      *)
(* muxer has gone and ffmpegStdin.Write fails on the first frame due:       *)
(* EncodeFile returns the error at once and the deferred Close closes the   *)
(* pipe.  The result was stored in pending before the write.                *)
CollectWriteError ==
    /\ pc = "collect" /\ results # << >>
    /\ Head(results).Err = ""
    /\ \E stored \in {MapPut(pending, Head(results).Index,
                              Head(results).Pixels)} :
          /\ nextFrameIndex \in DOMAIN stored
          /\ pending' = stored
    /\ results' = Tail(results)
    /\ pc' = "done" /\ err' = "write error"
    /\ closed' = closed \cup {"stdin"}
    /\ UNCHANGED << preset, level, ECCCfg, data, totalFrames, jobs, emitted,
                    rand, nextFrameIndex, written, workers, completed,
                    framePaths, frCfg, resultsMap, allData, output, corrupted,
                    cluster, sample >>

\* collector: results is closed and drained; the pipe is closed
Finish ==
    /\ pc = "collect" /\ results = << >> /\ "results" \in closed
    /\ pc' = "encoded"
    /\ UNCHANGED << preset, level, ECCCfg, data, totalFrames, jobs, emitted,
                    closed, rand, results, pending, nextFrameIndex, written,
                    workers, completed, framePaths, frCfg, resultsMap,
                    allData, output, err, corrupted, cluster, sample >>

-----------------------------------------------------------------------------
(* main.go runMaster, cluster/master.go, cluster/worker.go.  One Worker     *)
(* node with Len(workers) processLoops works for the master.  A result      *)
(* travels as the encoded FrameHeader of its frame; the zstd compression    *)
(* of the pixels is not modelled.                                           *)

BatchSize == 200

\* sendLoop: the attempts of flush at one POST
SendAttempts == 5

\* runMaster: totalFrames
MasterFrameCount(len, c0, cn) ==
    LET remainingAfterFrame0 == IF len > c0 THEN len - c0 ELSE 0
    IN  IF remainingAfterFrame0 > 0
        THEN 1 + ((remainingAfterFrame0 + cn - 1) \div cn)
        ELSE 1

\* runMaster: frameData of job i
MasterJobData(d, i, c0, cn) ==
    IF i = 0
    THEN Slice(d, 0, IF c0 > Len(d) THEN Len(d) ELSE c0)
    ELSE LET start == c0 + (i - 1) * cn
             end == start + cn
         IN  IF start >= Len(d) THEN << >>
             ELSE Slice(d, start, IF end > Len(d) THEN Len(d) ELSE end)

\* runMaster: the frame count and NewMaster
MasterCountFrames ==
    /\ pc = "runMaster"
    /\ totalFrames' = MasterFrameCount(Len(data), capacityFrame0,
                                       capacityOthers)
    /\ pc' = "addJobs"
    /\ UNCHANGED << preset, level, ECCCfg, data, jobs, emitted, closed, rand,
                    results, pending, nextFrameIndex, written, workers,
                    completed, framePaths, frCfg, resultsMap, allData, output,
                    err, corrupted, cluster, sample >>

\* runMaster: one iteration of the job loop, with Master.AddJob
AddJob ==
    /\ pc = "addJobs" /\ Len(emitted) < totalFrames
    /\ LET i == Len(emitted)
           job == [FrameIndex |-> i,
                   Data |-> MasterJobData(data, i, capacityFrame0,
                                          capacityOthers)]
       IN  /\ jobs' = Append(jobs, job)
           /\ emitted' = Append(emitted, job)
    /\ UNCHANGED << pc, preset, level, ECCCfg, data, totalFrames, closed, rand,
                    results, pending, nextFrameIndex, written, workers,
                    completed, framePaths, frCfg, resultsMap, allData, output,
                    err, corrupted, cluster, sample >>

(* runMaster: the whole job loop, every Master.AddJob of it.  The master    *)
(* serves no request before StartAsync, which follows the loop, so that     *)
(* nothing a Worker does falls between two iterations.                      *)
AddJobs ==
    /\ pc = "addJobs" /\ emitted = << >>
    /\ \E all \in {[n \in 1..totalFrames |->
                       [FrameIndex |-> n - 1,
                        Data |-> MasterJobData(data, n - 1, capacityFrame0,
                                               capacityOthers)]]} :
          /\ jobs' = jobs \o all
          /\ emitted' = emitted \o all
    /\ UNCHANGED << pc, preset, level, ECCCfg, data, totalFrames, closed, rand,
                    results, pending, nextFrameIndex, written, workers,
                    completed, framePaths, frCfg, resultsMap, allData, output,
                    err, corrupted, cluster, sample >>

\* Master.FinishAddingJobs: jobsDone = true
FinishAddingJobs ==
    /\ pc = "addJobs" /\ Len(emitted) = totalFrames
    /\ closed' = closed \cup {"jobs"}
    /\ pc' = "StartDistribution"
    /\ UNCHANGED << preset, level, ECCCfg, data, totalFrames, jobs, emitted,
                    rand, results, pending, nextFrameIndex, written, workers,
                    completed, framePaths, frCfg, resultsMap, allData, output,
                    err, corrupted, cluster, sample >>

\* runMaster after ENTER: Master.StartDistribution, then the collection loop
StartDistribution ==
    /\ pc = "StartDistribution"
    /\ cluster' = [cluster EXCEPT !.running = TRUE]
    /\ pc' = "masterCollect"
    /\ UNCHANGED << preset, level, ECCCfg, data, totalFrames, jobs, emitted,
                    closed, rand, results, pending, nextFrameIndex, written,
                    workers, completed, framePaths, frCfg, resultsMap,
                    allData, output, err, corrupted, sample >>

(* Worker.fetchLoop: one GET /batch answered by handleGetBatch with         *)
(* takeBatch(BatchSize).  204 stops the loop and closes jobChan; 202 (not   *)
(* running, or nothing to take yet) is a retry that changes nothing.        *)
FetchBatch ==
    /\ ~cluster.stop /\ cluster.running
    /\ Len(cluster.jobChan) <= 2 * BatchSize - BatchSize
    /\ LET n == Min(BatchSize, Len(jobs))
           batch == SubSeq(jobs, 1, n)
       IN  IF jobs = << >>
           THEN /\ "jobs" \in closed
                /\ cluster' = [cluster EXCEPT !.stop = TRUE]
                /\ closed' = closed \cup {"jobChan"}
                /\ jobs' = jobs
           ELSE /\ cluster' = [cluster EXCEPT !.jobChan = @ \o batch,
                                             !.JobsSent = @ + Len(batch)]
                /\ jobs' = SubSeq(jobs, n + 1, Len(jobs))
                /\ closed' = closed
    /\ UNCHANGED << pc, preset, level, ECCCfg, data, totalFrames, emitted,
                    rand, results, pending, nextFrameIndex, written, workers,
                    completed, framePaths, frCfg, resultsMap, allData, output,
                    err, corrupted, sample >>

\* Master.takeBatch(n): the batch (empty for nil) and the FIFO it leaves
takeBatchFromTail(fifo, n) ==
    IF Len(fifo) = 0 THEN [batch |-> << >>, jobs |-> fifo]
    ELSE LET k == IF n > Len(fifo) THEN Len(fifo) ELSE n
         IN  [batch |-> SubSeq(fifo, Len(fifo) - k + 1, Len(fifo)),
              jobs |-> SubSeq(fifo, 1, Len(fifo) - k)]

\* Master.takeBatch that copies the batch and leaves it in the FIFO
takeBatchKeeping(fifo, n) ==
    IF Len(fifo) = 0 THEN [batch |-> << >>, jobs |-> fifo]
    ELSE LET k == IF n > Len(fifo) THEN Len(fifo) ELSE n
         IN  [batch |-> SubSeq(fifo, 1, k), jobs |-> fifo]

takeBatch(fifo, n) ==
    IF Len(fifo) = 0 THEN [batch |-> << >>, jobs |-> fifo]
    ELSE LET k == IF n > Len(fifo) THEN Len(fifo) ELSE n
         IN  [batch |-> SubSeq(fifo, 1, k),
              jobs |-> SubSeq(fifo, k + 1, Len(fifo))]

\* Master.hasJobs
hasJobs(fifo, jobsDone) == Len(fifo) > 0 \/ ~jobsDone

(* Master.handleGetBatch: the status code and the batch of the response,    *)
(* and the FIFO left.  EncodeGob does not fail on a []FrameJob, so the      *)
(* branch that puts the batch back and answers 500 is never taken.          *)
handleGetBatchUngated(running, fifo, jobsDone) ==
    LET t == takeBatch(fifo, BatchSize)
    IN  IF t.batch = << >>
        THEN [code |-> IF ~hasJobs(t.jobs, jobsDone) THEN 204 ELSE 202,
              batch |-> << >>, jobs |-> t.jobs]
        ELSE [code |-> 200, batch |-> t.batch, jobs |-> t.jobs]

handleGetBatch(running, fifo, jobsDone) ==
    IF ~running THEN [code |-> 202, batch |-> << >>, jobs |-> fifo]
    ELSE LET t == takeBatch(fifo, BatchSize)
         IN  IF t.batch = << >>
             THEN [code |-> IF ~hasJobs(t.jobs, jobsDone) THEN 204 ELSE 202,
                   batch |-> << >>, jobs |-> t.jobs]
             ELSE [code |-> 200, batch |-> t.batch, jobs |-> t.jobs]

\* a handler goroutine of the master between two GET /batch requests
IdleHandler == [at |-> "idle", code |-> 0, got |-> << >>]

(* Master.handleGetBatch of handler goroutine k, up to the return of        *)
(* takeBatch, which holds jobsMu: with a batch the request is answered 200  *)
(* (got keeps the batches of the 200 responses of k) and JobsSent grows by  *)
(* the batch, with nil the handler goes on to hasJobs.                      *)
HandlerTake(k) ==
    /\ workers[k].at = "idle" /\ workers[k].code # 204
    /\ cluster.running
    /\ \E t \in {takeBatch(jobs, BatchSize)} :
          /\ jobs' = t.jobs
          /\ workers' =
                IF t.batch = << >>
                THEN [workers EXCEPT ![k].at = "hasJobs"]
                ELSE [workers EXCEPT ![k].code = 200,
                                     ![k].got = Append(@, t.batch)]
          /\ cluster' = [cluster EXCEPT !.JobsSent = @ + Len(t.batch)]
    /\ UNCHANGED << pc, preset, level, ECCCfg, data, totalFrames, emitted,
                    closed, rand, results, pending, nextFrameIndex, written,
                    completed, framePaths, frCfg, resultsMap, allData, output,
                    err, corrupted, sample >>

(* Master.handleGetBatch of handler goroutine k after a nil batch: hasJobs  *)
(* takes jobsMu again, and the answer is 204 or 202.                        *)
HandlerHasJobs(k) ==
    /\ workers[k].at = "hasJobs"
    /\ workers' =
          [workers EXCEPT
              ![k].at = "idle",
              ![k].code = IF ~hasJobs(jobs, "jobs" \in closed) THEN 204
                          ELSE 202]
    /\ UNCHANGED << pc, preset, level, ECCCfg, data, totalFrames, jobs,
                    emitted, closed, rand, results, pending, nextFrameIndex,
                    written, completed, framePaths, frCfg, resultsMap,
                    allData, output, err, corrupted, cluster, sample >>

\* fetchLoop: the failures of client.Get it bears before it stops
FetchRetries == 10

\* the ways one client.Get of /batch can end
GetOutcomes == {"ok", "request lost", "response lost"}

(* Worker.fetchLoop: one iteration, with Master.handleGetBatch unless the   *)
(* request is lost.  The master serves from StartAsync, which follows      *)
(* FinishAddingJobs, until runMaster returns.  cluster.response is the      *)
(* last response the master wrote; cluster.failed counts the failed GETs    *)
(* since the last response the Worker received.                             *)
GetBatch(outcome) ==
    /\ ~cluster.stop
    /\ Len(cluster.jobChan) <= 2 * BatchSize - BatchSize
    /\ outcome # "request lost" => pc \in {"StartDistribution", "masterCollect"}
    /\ \E h \in {handleGetBatch(cluster.running, jobs, "jobs" \in closed)} :
          IF outcome = "ok"
          THEN /\ jobs' = h.jobs
               /\ cluster' =
                      [cluster EXCEPT
                          !.response = [code |-> h.code, batch |-> h.batch],
                          !.failed = 0,
                          !.retries = IF h.code = 200 THEN 0 ELSE @,
                          !.stop = (h.code = 204),
                          !.jobChan = @ \o h.batch,
                          !.JobsSent = @ + Len(h.batch)]
               /\ closed' = IF h.code = 204 THEN closed \cup {"jobChan"}
                             ELSE closed
          ELSE /\ jobs' = IF outcome = "response lost" THEN h.jobs ELSE jobs
               /\ cluster' =
                      [cluster EXCEPT
                          !.response = IF outcome = "response lost"
                                       THEN [code |-> h.code, batch |-> h.batch]
                                       ELSE @,
                          !.failed = @ + 1,
                          !.retries = @ + 1,
                          !.stop = (cluster.retries + 1 > FetchRetries),
                          !.JobsSent = IF outcome = "response lost"
                                       THEN @ + Len(h.batch) ELSE @]
               /\ closed' = IF cluster.retries + 1 > FetchRetries
                             THEN closed \cup {"jobChan"} ELSE closed
    /\ UNCHANGED << pc, preset, level, ECCCfg, data, totalFrames, emitted,
                    rand, results, pending, nextFrameIndex, written, workers,
                    completed, framePaths, frCfg, resultsMap, allData, output,
                    err, corrupted, sample >>

\* Worker.processLoop: the next job of `for job := range jobChan`
ProcessTake(w) ==
    /\ ~workers[w].exited /\ workers[w].job = << >>
    /\ cluster.jobChan # << >>
    /\ workers' = [workers EXCEPT ![w].job = << Head(cluster.jobChan) >>]
    /\ cluster' = [cluster EXCEPT !.jobChan = Tail(@)]
    /\ UNCHANGED << pc, preset, level, ECCCfg, data, totalFrames, jobs,
                    emitted, closed, rand, results, pending, nextFrameIndex,
                    written, completed, framePaths, frCfg, resultsMap,
                    allData, output, err, corrupted, sample >>

\* Worker.processLoop: jobChan is closed and empty
ProcessExit(w) ==
    /\ ~workers[w].exited /\ workers[w].job = << >>
    /\ cluster.jobChan = << >> /\ "jobChan" \in closed
    /\ workers' = [workers EXCEPT ![w].exited = TRUE]
    /\ UNCHANGED << pc, preset, level, ECCCfg, data, totalFrames, jobs,
                    emitted, closed, rand, results, pending, nextFrameIndex,
                    written, completed, framePaths, frCfg, resultsMap,
                    allData, output, err, corrupted, cluster, sample >>

\* Worker.processFrame: the FrameResult of a job
FrameResultOf(job, total, pad) ==
    LET frame == NewFrame(FrameCfg, ECCCfg, job.FrameIndex, job.Data, total)
        ren == Render(frame, pad + job.FrameIndex)
    IN  [FrameIndex |-> job.FrameIndex, Error |-> ren.err,
         CompressedPixels |->
             IF ren.err # "" THEN << >> ELSE EncodeHeader(frame.Header)]

\* Worker.processFrame, and resultChan <- result
ProcessFrame(w) ==
    /\ ~workers[w].exited /\ workers[w].job # << >>
    /\ Len(cluster.resultChan) < 2 * BatchSize
    /\ \E result \in {FrameResultOf(workers[w].job[1], totalFrames, rand)} :
          cluster' = [cluster EXCEPT !.resultChan = Append(@, result)]
    /\ workers' = [workers EXCEPT ![w].job = << >>]
    /\ UNCHANGED << pc, preset, level, ECCCfg, data, totalFrames, jobs,
                    emitted, closed, rand, results, pending, nextFrameIndex,
                    written, completed, framePaths, frCfg, resultsMap,
                    allData, output, err, corrupted, sample >>

\* processLoop: image.NewRGBA, the raster buffer before any frame is drawn
NewRGBA(fc) ==
    [Width |-> fc.Width, Height |-> fc.Height, Size |-> fc.MacroSize,
     Cols |-> GridCols(fc), Rows |-> GridRows(fc),
     Bar |-> [s \in 1..4 |-> 0],
     Cells |-> [i \in 1..TotalMacros(fc) |-> 0]]

\* Worker.processFrame without renderCalibrationBar
WorkerDrawNoBar(img, fc, pixels, n) ==
    [img EXCEPT
        !.Cells = [i \in DOMAIN img.Cells |->
                      IF /\ i <= Len(pixels)
                         /\ (i - 1) \div PixelsPerByte(fc) < n
                      THEN ByteToGray(fc.GrayLevels = 2, pixels[i])
                      ELSE img.Cells[i]]]

\* Worker.processFrame drawing only the macro-pixels that are not black
WorkerDrawSparse(img, fc, pixels, n) ==
    [img EXCEPT
        !.Bar = renderCalibrationBar(fc.Width),
        !.Cells = [i \in DOMAIN img.Cells |->
                      IF i <= Len(pixels) /\ pixels[i] # 0
                      THEN ByteToGray(fc.GrayLevels = 2, pixels[i])
                      ELSE img.Cells[i]]]

(* Worker.processFrame, step 3: renderCalibrationBar and the squares of the *)
(* macro-pixels drawn over what img holds.  Render(nil) leaves the          *)
(* macro-pixels past the last of its n bytes at Size 0, and those     *)
(* draw nothing.                                                            *)
WorkerDraw(img, fc, pixels, n) ==
    [img EXCEPT
        !.Bar = renderCalibrationBar(fc.Width),
        !.Cells = [i \in DOMAIN img.Cells |->
                      IF /\ i <= Len(pixels)
                         /\ (i - 1) \div PixelsPerByte(fc) < n
                      THEN ByteToGray(fc.GrayLevels = 2, pixels[i])
                      ELSE img.Cells[i]]]

(* Worker.processLoop with the raster: processFrame draws frame job on the  *)
(* img of this processLoop, and CompressPixels gives the result a new       *)
(* slice made from img.Pix as it is then (the zstd coding of it is not      *)
(* modelled).                                                               *)
ProcessDraw(w) ==
    /\ ~workers[w].exited /\ workers[w].job # << >>
    /\ Len(cluster.resultChan) < 2 * BatchSize
    /\ \E job \in {workers[w].job[1]} :
       \E frame \in {NewFrame(FrameCfg, ECCCfg, job.FrameIndex, job.Data,
                               totalFrames)} :
       \E ren \in {Render(frame, rand + job.FrameIndex)} :
          IF ren.err # ""
          THEN /\ workers' = [workers EXCEPT ![w].job = << >>]
               /\ cluster' =
                      [cluster EXCEPT
                          !.resultChan =
                              Append(@, [FrameIndex |-> job.FrameIndex,
                                         Error |-> ren.err,
                                         CompressedPixels |-> << >>])]
          ELSE \E drawn \in {WorkerDraw(workers[w].img, FrameCfg, ren.pixels,
                                         Len(allBytes(frame,
                                                      rand + job.FrameIndex)))} :
                  /\ workers' = [workers EXCEPT ![w].job = << >>,
                                                ![w].img = drawn]
                  /\ cluster' =
                         [cluster EXCEPT
                             !.resultChan =
                                 Append(@, [FrameIndex |-> job.FrameIndex,
                                            Error |-> "",
                                            CompressedPixels |-> drawn])]
    /\ UNCHANGED << pc, preset, level, ECCCfg, data, totalFrames, jobs,
                    emitted, closed, rand, results, pending, nextFrameIndex,
                    written, completed, framePaths, frCfg, resultsMap,
                    allData, output, err, corrupted, sample >>

\* sendLoop: a buffer to flush on the spot
flushDueLate(buffer) == Len(buffer) > BatchSize

flushDue(buffer) == Len(buffer) >= BatchSize

\* Worker.sendLoop: a result is received into buffer, between two flushes
SendReceive ==
    /\ cluster.tries = 0 /\ ~flushDue(cluster.buffer)
    /\ cluster.resultChan # << >>
    /\ cluster' = [cluster EXCEPT !.resultChan = Tail(@),
                                  !.buffer = Append(@, Head(cluster.resultChan))]
    /\ UNCHANGED << pc, preset, level, ECCCfg, data, totalFrames, jobs,
                    emitted, closed, rand, results, pending, nextFrameIndex,
                    written, workers, completed, framePaths, frCfg,
                    resultsMap, allData, output, err, corrupted, sample >>

\* the ways one httpPost of a batch can end
PostOutcomes == {"ok", "request lost", "response lost"}

(* Worker.sendLoop flush: one attempt at POST /batch (on the ticker, or     *)
(* with a full buffer).  Unless the request is lost, handlePostBatch sends  *)
(* every result of the body to master.Results; unless httpPost returns     *)
(* without error, flush tries again, SendAttempts times in all, and clears  *)
(* the buffer in the end.                                                   *)
Post(outcome) ==
    /\ cluster.buffer # << >>
    /\ cluster.tries < SendAttempts
    /\ Len(results) + Len(cluster.buffer) <= BatchSize
    /\ results' = IF outcome = "request lost" THEN results
                  ELSE results \o cluster.buffer
    /\ \E received \in {IF outcome = "request lost" THEN 0
                        ELSE Len(cluster.buffer)} :
          cluster' = IF outcome = "ok" \/ cluster.tries + 1 = SendAttempts
                     THEN [cluster EXCEPT !.buffer = << >>, !.tries = 0,
                                          !.JobsCompleted = @ + received]
                     ELSE [cluster EXCEPT !.tries = @ + 1,
                                          !.JobsCompleted = @ + received]
    /\ UNCHANGED << pc, preset, level, ECCCfg, data, totalFrames, jobs,
                    emitted, closed, rand, pending, nextFrameIndex, written,
                    workers, completed, framePaths, frCfg, resultsMap,
                    allData, output, err, corrupted, sample >>

\* runMaster: one iteration of `for completed := 0; completed < totalFrames;`
MasterCollect ==
    /\ pc = "masterCollect" /\ completed < totalFrames
    /\ results # << >>
    /\ results' = Tail(results)
    /\ LET result == Head(results)
           d == DrainPending(MapPut(pending, result.FrameIndex,
                                    result.CompressedPixels), nextFrameIndex)
       IN  IF result.Error # ""
           THEN /\ pc' = "done" /\ err' = "worker error"
                /\ UNCHANGED << pending, nextFrameIndex, written, completed >>
           ELSE /\ pending' = d.pending
                /\ nextFrameIndex' = d.nextFrameIndex
                /\ written' = written \o d.frames
                /\ completed' = completed + 1
                /\ UNCHANGED << pc, err >>
    /\ UNCHANGED << preset, level, ECCCfg, data, totalFrames, jobs, emitted,
                    closed, rand, workers, framePaths, frCfg, resultsMap,
                    allData, output, corrupted, cluster, sample >>

\* runMaster: the collection loop has ended; the pipe is flushed and closed
MasterFinish ==
    /\ pc = "masterCollect" /\ completed >= totalFrames
    /\ pc' = "masterDone"
    /\ UNCHANGED << preset, level, ECCCfg, data, totalFrames, jobs, emitted,
                    closed, rand, results, pending, nextFrameIndex, written,
                    workers, completed, framePaths, frCfg, resultsMap,
                    allData, output, err, corrupted, cluster, sample >>

-----------------------------------------------------------------------------
(* extractor.go ExtractFrames and reconstructor.go ReconstructFile.  A      *)
(* path frame_%05d.png is kept as its number; below 100000 the order of     *)
(* the strings is the order of the numbers.                                 *)

\* s with x inserted before the first element whose path is larger
RECURSIVE InsertByPath(_, _)
InsertByPath(s, x) ==
    IF s = << >> THEN << x >>
    ELSE IF x.path < Head(s).path THEN << x >> \o s
    ELSE << Head(s) >> \o InsertByPath(Tail(s), x)

\* sort.Slice(framePaths, func(i, j) { return framePaths[i] < framePaths[j] })
RECURSIVE SortPaths(_)
SortPaths(s) ==
    IF s = << >> THEN << >>
    ELSE InsertByPath(SortPaths(Tail(s)), Head(s))

\* the sequences without repetition of n elements of S
RECURSIVE Arrangements(_, _)
Arrangements(S, n) ==
    IF n = 0 THEN {<< >>}
    ELSE UNION {{<< x >> \o t : t \in Arrangements(S \ {x}, n - 1)} : x \in S}

(* ExtractFrames: the video decoder writes the rasters it delivers as       *)
(* frame_00001.png, frame_00002.png, ... in the order of delivery;          *)
(* presented[n] is the position in the muxer pipe of the n-th raster        *)
(* delivered.  The directory, read in any order, is sorted by path.         *)
ExtractFrames(presented) ==
    /\ pc = "encoded"
    /\ framePaths' = SortPaths(
           [n \in 1..Len(presented) |->
               LET at == Len(presented) + 1 - n
               IN  [path |-> at, img |-> written[presented[at]]]])
    /\ pc' = "ReconstructFile"
    /\ UNCHANGED << preset, level, ECCCfg, data, totalFrames, jobs, emitted,
                    closed, rand, results, pending, nextFrameIndex, written,
                    workers, completed, frCfg, resultsMap, allData, output,
                    err, corrupted, cluster, sample >>

(* ReconstructFile up to close(jobChan): the threads, the sort, the         *)
(* channels of capacity len(framePaths), the workers and the jobs.          *)
StartReconstruct(threads) ==
    /\ pc = "ReconstructFile"
    /\ framePaths' = SortPaths(framePaths)
    /\ workers' = [w \in 1..threads |-> IdleWorker]
    /\ jobs' = [n \in 1..Len(framePaths) |->
                   [i |-> n - 1, path |-> SortPaths(framePaths)[n].path]]
    /\ results' = << >>
    /\ closed' = {"jobs"}
    /\ pc' = "decode"
    /\ UNCHANGED << preset, level, ECCCfg, data, totalFrames, emitted, rand,
                    pending, nextFrameIndex, written, completed, frCfg,
                    resultsMap, allData, output, err, corrupted, cluster, sample >>

\* the raster stored at a path
ImageAt(path) ==
    LET n == CHOOSE n \in 1..Len(framePaths) : framePaths[n].path = path
    IN  framePaths[n].img

\* worker: job := <-jobChan
DecodeTake(w) ==
    /\ pc = "decode"
    /\ ~workers[w].exited /\ workers[w].job = << >>
    /\ jobs # << >>
    /\ workers' = [workers EXCEPT ![w].job = << Head(jobs) >>]
    /\ jobs' = Tail(jobs)
    /\ UNCHANGED << pc, preset, level, ECCCfg, data, totalFrames, emitted,
                    closed, rand, results, pending, nextFrameIndex, written,
                    completed, framePaths, frCfg, resultsMap, allData, output,
                    err, corrupted, cluster, sample >>

(* worker: fr.processFrame(job.path) and resultChan <- decodeResult{...}.   *)
(* processFrame works on the FrameCfg shared by all the workers, without a  *)
(* lock, and leaves in it the geometry it settled on.  `below` is the       *)
(* rounding of the level scan's float products.                             *)
DecodeFrame(w, below) ==
    /\ pc = "decode"
    /\ ~workers[w].exited /\ workers[w].job # << >>
    /\ \E job \in {workers[w].job[1]} :
       \E img \in {ImageAt(job.path)} :
       \E res \in {processFrame(img, frCfg, below)} :
           /\ results' = Append(results,
                  [index |-> job.i, data |-> res.data,
                   frameHeader |-> res.header, globalMeta |-> res.globalMeta,
                   crcOK |-> res.crcOK, err |-> res.err])
           /\ frCfg' = [frCfg EXCEPT !.Width = img.Width,
                                     !.Height = img.Height,
                                     !.MacroSize = res.MacroSize]
    /\ workers' = [workers EXCEPT ![w].job = << >>]
    /\ UNCHANGED << pc, preset, level, ECCCfg, data, totalFrames, jobs,
                    emitted, closed, rand, pending, nextFrameIndex, written,
                    completed, framePaths, resultsMap, allData, output, err,
                    corrupted, cluster, sample >>

(* worker w: fr.processFrame(job.path) while worker v is inside             *)
(* processFrame too and its size scan writes a value to the shared          *)
(* fr.FrameCfg.MacroSize during stage `stage` of w's scan; v is not         *)
(* scheduled again before w has sent its result.                            *)
DecodeFrameRacing(w, v, below, stage) ==
    /\ pc = "decode"
    /\ w # v
    /\ ~workers[w].exited /\ workers[w].job # << >>
    /\ ~workers[v].exited /\ workers[v].job # << >>
    /\ \E job \in {workers[w].job[1]} :
       \E img \in {ImageAt(job.path)} :
       \E seen \in ScanWrites(ImageAt(workers[v].job[1].path), frCfg) :
       \E res \in {racingProcessFrame(img, frCfg, below, stage, seen)} :
           /\ results' = Append(results,
                  [index |-> job.i, data |-> res.data,
                   frameHeader |-> res.header, globalMeta |-> res.globalMeta,
                   crcOK |-> res.crcOK, err |-> res.err])
           /\ frCfg' = [frCfg EXCEPT !.Width = img.Width,
                                     !.Height = img.Height,
                                     !.MacroSize = res.MacroSize]
    /\ workers' = [workers EXCEPT ![w].job = << >>]
    /\ UNCHANGED << pc, preset, level, ECCCfg, data, totalFrames, jobs,
                    emitted, closed, rand, pending, nextFrameIndex, written,
                    completed, framePaths, resultsMap, allData, output, err,
                    corrupted, cluster, sample >>

\* worker: jobChan is closed and empty
DecodeExit(w) ==
    /\ pc = "decode"
    /\ ~workers[w].exited /\ workers[w].job = << >>
    /\ jobs = << >> /\ "jobs" \in closed
    /\ workers' = [workers EXCEPT ![w].exited = TRUE]
    /\ UNCHANGED << pc, preset, level, ECCCfg, data, totalFrames, jobs,
                    emitted, closed, rand, results, pending, nextFrameIndex,
                    written, completed, framePaths, frCfg, resultsMap,
                    allData, output, err, corrupted, cluster, sample >>

\* wg.Wait(); close(resultChan)
CloseResultChan ==
    /\ pc = "decode" /\ "results" \notin closed
    /\ \A w \in 1..Threads : workers[w].exited
    /\ closed' = closed \cup {"results"}
    /\ UNCHANGED << pc, preset, level, ECCCfg, data, totalFrames, jobs,
                    emitted, rand, results, pending, nextFrameIndex, written,
                    workers, completed, framePaths, frCfg, resultsMap,
                    allData, output, err, corrupted, cluster, sample >>

\* one iteration of `for res := range resultChan`
CollectResult ==
    /\ pc = "decode" /\ results # << >>
    /\ results' = Tail(results)
    /\ LET res == Head(results)
       IN  IF res.err # ""
           THEN /\ pc' = "reconstructed" /\ err' = "frame process error"
                /\ UNCHANGED resultsMap
           ELSE /\ resultsMap' = MapPut(resultsMap, res.index, res)
                /\ UNCHANGED << pc, err >>
    /\ UNCHANGED << preset, level, ECCCfg, data, totalFrames, jobs, emitted,
                    closed, rand, pending, nextFrameIndex, written, workers,
                    completed, framePaths, frCfg, allData, output, corrupted,
                    cluster, sample >>

\* the data of results 0 .. n-1 of m end to end; "missing" if one is absent
RECURSIVE AssembleData(_, _)
AssembleData(m, n) ==
    IF n = 0 THEN [missing |-> FALSE, allData |-> << >>]
    ELSE LET before == AssembleData(m, n - 1)
         IN  IF before.missing \/ (n - 1) \notin DOMAIN m
             THEN [missing |-> TRUE, allData |-> << >>]
             ELSE [missing |-> FALSE,
                   allData |-> before.allData \o m[n - 1].data]

(* resultChan is closed and drained: the sequential assembly over           *)
(* i = 0 .. len(framePaths)-1, the warnings, and os.WriteFile.              *)
Assemble ==
    /\ pc = "decode" /\ results = << >> /\ "results" \in closed
    /\ LET a == AssembleData(resultsMap, Len(framePaths))
       IN  IF a.missing
           THEN /\ err' = "missing result" /\ UNCHANGED << allData, output >>
           ELSE /\ allData' = a.allData
                /\ output' = [written |-> TRUE, bytes |-> a.allData]
                /\ err' = err
    /\ pc' = "reconstructed"
    /\ UNCHANGED << preset, level, ECCCfg, data, totalFrames, jobs, emitted,
                    closed, rand, results, pending, nextFrameIndex, written,
                    workers, completed, framePaths, frCfg, resultsMap,
                    corrupted, cluster, sample >>

-----------------------------------------------------------------------------
(* The channel between EncodeFile and ReconstructFile *)

\* the ways a shard is damaged
Damages == {"zeroed", "randomized"}

\* the byte that replaces byte byteIdx of the record
DamagedByte(damage, byteIdx) ==
    IF damage = "zeroed" THEN 0 ELSE (byteIdx * 37 + 11) % 256

(* raster r of a frame of dataSize bytes with the cells of the shards in S  *)
(* (numbered from 1) repainted to carry damaged bytes; the FrameHeader and  *)
(* the other shards are as written.                                         *)
DamageShards(r, fc, ecc, dataSize, S, damage) ==
    LET shardSize == (dataSize + ecc.DataShards - 1) \div ecc.DataShards
        ShardOf(byteIdx) ==
            ((byteIdx - FrameHeaderSizeBytes) \div shardSize) + 1
        Hit(byteIdx) ==
            byteIdx >= FrameHeaderSizeBytes /\ ShardOf(byteIdx) \in S
    IN  [r EXCEPT !.Cells =
            [c \in 1..Len(r.Cells) |->
                LET byteIdx == (c - 1) \div PixelsPerByte(fc)
                IN  IF Hit(byteIdx)
                    THEN ByteToGray(fc.GrayLevels = 2,
                             PixelBits(fc, DamagedByte(damage, byteIdx), c - 1))
                    ELSE r.Cells[c]]]

\* the channel damages the shards in S of the only frame of the video
Corrupt(S, damage) ==
    /\ pc = "encoded" /\ corrupted = {} /\ S # {}
    /\ Len(written) = 1
    /\ written' = << DamageShards(written[1], FrameCfg, ECCCfg,
                                  GlobalHeaderSizeBytes + Len(data), S,
                                  damage) >>
    /\ corrupted' = S
    /\ UNCHANGED << pc, preset, level, ECCCfg, data, totalFrames, jobs,
                    emitted, closed, rand, results, pending, nextFrameIndex,
                    workers, completed, framePaths, frCfg, resultsMap,
                    allData, output, err, cluster, sample >>

\* the changes of one byte: b becomes (b + delta) % 256
Deltas == {1, 128}

\* raster r with the cells of byte byteIdx (0-based) of the record repainted
\* to carry byte b
RepaintByte(r, fc, byteIdx, b) ==
    [r EXCEPT !.Cells =
        [c \in 1..Len(r.Cells) |->
            IF (c - 1) \div PixelsPerByte(fc) = byteIdx
            THEN ByteToGray(fc.GrayLevels = 2, PixelBits(fc, b, c - 1))
            ELSE r.Cells[c]]]

(* The channel changes byte `at` (0-based) of the data region of frame n    *)
(* (0-based) of the video: the FrameHeader, the rest of the data region,    *)
(* the parity shards and the other frames are as written.                   *)
MutateByte(n, at, delta) ==
    /\ pc = "encoded" /\ corrupted = {}
    /\ n < Len(written)
    /\ \E frame \in {NewFrame(FrameCfg, ECCCfg, n,
                         DispatcherJobData(data, n, capacityFrame0,
                                           capacityOthers),
                         totalFrames)} :
          /\ at < frame.Header.DataSize
          /\ \E old \in {frame.Data[at + 1]} :
                written' = [written EXCEPT ![n + 1] =
                    RepaintByte(written[n + 1], FrameCfg,
                                FrameHeaderSizeBytes + at,
                                (old + delta) % 256)]
          /\ corrupted' =
                {at \div ((frame.Header.DataSize + ECCCfg.DataShards - 1)
                             \div ECCCfg.DataShards) + 1}
    /\ UNCHANGED << pc, preset, level, ECCCfg, data, totalFrames, jobs,
                    emitted, closed, rand, results, pending, nextFrameIndex,
                    workers, completed, framePaths, frCfg, resultsMap,
                    allData, output, err, cluster, sample >>

\* FrameHeader: the place (0-based) of ParityShards in the encoded header
ParityShardsOffset == 15

(* The video comes from an encoder of the legacy format, which worked with  *)
(* 16 + 48 shards and left 0 in the ParityShards byte of every FrameHeader. *)
LegacyHeaders ==
    /\ pc = "encoded" /\ level = "legacy"
    /\ written' = [n \in 1..Len(written) |->
                      RepaintByte(written[n], FrameCfg, ParityShardsOffset, 0)]
    /\ written' # written
    /\ UNCHANGED << pc, preset, level, ECCCfg, data, totalFrames, jobs,
                    emitted, closed, rand, results, pending, nextFrameIndex,
                    workers, completed, framePaths, frCfg, resultsMap,
                    allData, output, err, corrupted, cluster, sample >>

(* The video between EncodeFile and ExtractFrames changes the luminances:   *)
(* a tone curve gives, for each luminance the encoder paints, the one the   *)
(* extracted raster shows.                                                  *)
PaintedLevels == << 0, 32, 96, 160, 224, 255 >>

\* the curves tried: as painted, limited range, washed out, raised with
\* white cells from 220, raised with white cells from 195
ToneCurves ==
    { << 0, 32, 96, 160, 224, 255 >>,
      << 16, 43, 98, 153, 208, 235 >>,
      << 120, 121, 123, 125, 127, 128 >>,
      << 0, 217, 226, 238, 250, 255 >>,
      << 0, 190, 196, 203, 210, 255 >> }

\* the luminance shown for the painted luminance v
Toned(curve, v) == curve[CHOOSE k \in DOMAIN PaintedLevels : PaintedLevels[k] = v]

\* raster r seen through the curve
Grade(r, curve) ==
    [r EXCEPT !.Bar = [s \in 1..4 |-> Toned(curve, r.Bar[s])],
              !.Cells = [c \in 1..Len(r.Cells) |-> Toned(curve, r.Cells[c])]]

(* ExtractFrames on a video that changed the luminances: as ExtractFrames,  *)
(* each raster seen through the curve.                                      *)
ExtractGraded(presented, curve) ==
    /\ pc = "encoded"
    /\ framePaths' = SortPaths(
           [n \in 1..Len(presented) |->
               LET at == Len(presented) + 1 - n
               IN  [path |-> at,
                    img |-> Grade(written[presented[at]], curve)]])
    /\ pc' = "ReconstructFile"
    /\ UNCHANGED << preset, level, ECCCfg, data, totalFrames, jobs, emitted,
                    closed, rand, results, pending, nextFrameIndex, written,
                    workers, completed, frCfg, resultsMap, allData, output,
                    err, corrupted, cluster, sample >>

-----------------------------------------------------------------------------
(* Specifications of EncodeFile *)

\* payload lengths around the frame boundaries, of MaxFrames frames at most
BoundaryLengths(c0, cn) ==
    {n \in {1, 37} \cup {c0 + j * cn + dd :
                            j \in 0..(MaxFrames - 1), dd \in {-1, 0, 1}} :
        n >= 1 /\ n <= c0 + (MaxFrames - 1) * cn}

\* the shortest payload of f frames
ShortestOf(f, c0, cn) == IF f = 1 THEN 1 ELSE c0 + (f - 2) * cn + 1

\* the longest payload of f frames
LongestOf(f, c0, cn) == c0 + (f - 1) * cn

(* The dispatchers of EncodeFile and of runMaster alone, before a worker   *)
(* is scheduled: every preset and level, payloads around the frame          *)
(* boundaries.                                                              *)
InitChunk ==
    /\ pc \in {"EncodeFile", "runMaster"}
    /\ \E p \in PresetNames, lv \in LevelNames : NewVideoEncoder(p, lv, 1)
    /\ \E n \in BoundaryLengths(capacityFrame0, capacityOthers),
          seed \in 0..MaxSeed : data = Payload(n, seed)
    /\ rand = 0
    /\ Untouched

NextChunk ==
    \/ CountFrames \/ Dispatch \/ CloseJobs
    \/ MasterCountFrames \/ AddJob \/ FinishAddingJobs

SpecChunk == InitChunk /\ [][NextChunk]_vars

(* EncodeFile with one render worker: every preset and level, the shortest  *)
(* payload and the longest and shortest payloads of two and more frames.    *)
InitRender ==
    /\ pc = "EncodeFile"
    /\ \E p \in PresetNames, lv \in LevelNames : NewVideoEncoder(p, lv, 1)
    /\ \E n \in {1, LongestOf(MaxFrames - 1, capacityFrame0, capacityOthers),
                 ShortestOf(MaxFrames, capacityFrame0, capacityOthers)},
          seed \in {0} : data = Payload(n, seed)
    /\ \E pad \in 0..MaxPad : rand = pad
    /\ Untouched

NextRender ==
    \/ CountFrames \/ Dispatch \/ CloseJobs \/ CloseResults
    \/ \E w \in 1..Threads : WorkerTake(w)
    \/ \E w \in 1..Threads : WorkerRender(w, FALSE)
    \/ \E w \in 1..Threads : WorkerExit(w)
    \/ Collect(FALSE) \/ Finish

SpecRender == InitRender /\ [][NextRender]_vars

(* EncodeFile with one or two render workers racing: one FrameConfig,     *)
(* payloads of one to MaxFrames frames.                                     *)
InitEncode ==
    /\ pc = "EncodeFile"
    /\ \E threads \in 1..2 : NewVideoEncoder("default", "low", threads)
    /\ \E f \in 1..MaxFrames :
          data = Payload(ShortestOf(f, capacityFrame0, capacityOthers), 0)
    /\ rand = 0
    /\ Untouched

SpecEncode == InitEncode /\ [][NextRender]_vars

(* EncodeFile to its end: one render worker and a video of two frames more  *)
(* than a channel holds, so that dispatcher and worker have to wait for     *)
(* room, and two render workers racing over one to MaxFrames frames.  Each  *)
(* goroutine that can take a step is scheduled in the end.                  *)
InitTerminate ==
    /\ pc = "EncodeFile"
    /\ \E threads \in 1..2 :
          /\ NewVideoEncoder("default", "low", threads)
          /\ \E f \in IF threads = 1 THEN {4 * threads + 2} ELSE 1..MaxFrames :
                data = Payload(ShortestOf(f, capacityFrame0, capacityOthers),
                               0)
    /\ rand = 0
    /\ Untouched

\* worker w holds a job and results has room: WorkerRender(w, _) is enabled
RenderReady(w) ==
    /\ w \in 1..Threads
    /\ pc \in {"collect", "done"}
    /\ ~workers[w].exited /\ workers[w].job # << >>
    /\ Len(results) < bufferSize

(* Weak fairness of every goroutine of EncodeFile; that of WorkerRender is  *)
(* written out, with RenderReady for its enabling condition.                *)
FairEncodeFile ==
    /\ WF_vars(CountFrames)
    /\ WF_vars(Dispatch) /\ WF_vars(CloseJobs) /\ WF_vars(CloseResults)
    /\ \A w \in 1..2 :
          /\ WF_vars(w \in 1..Threads /\ WorkerTake(w))
          /\ \/ []<>(~RenderReady(w))
             \/ []<><<w \in 1..Threads /\ WorkerRender(w, FALSE)>>_vars
          /\ WF_vars(w \in 1..Threads /\ WorkerExit(w))
    /\ WF_vars(Collect(FALSE)) /\ WF_vars(Finish)

SpecTerminate == InitTerminate /\ [][NextRender]_vars /\ FairEncodeFile

(* EncodeFile with one render worker and a muxer that may go at any         *)
(* write: a video of two frames more than the render worker and the two     *)
(* channels hold.                                                           *)
InitCancel ==
    /\ pc = "EncodeFile"
    /\ NewVideoEncoder("default", "low", 1)
    /\ \E f \in {Threads + 2 * 4 * Threads + 2} :
          data = Payload(ShortestOf(f, capacityFrame0, capacityOthers), 0)
    /\ rand = 0
    /\ Untouched

NextCancel == NextRender \/ CollectWriteError

SpecCancel == InitCancel /\ [][NextCancel]_vars

(* EncodeFile with two render workers, from the point where the first      *)
(* has received job 0 and is not scheduled again: the second renders every  *)
(* other frame of a video of two frames more than the workers and the       *)
(* channels can hold.                                                       *)
InitFlight ==
    /\ pc = "collect"
    /\ preset = "default" /\ level = "low" /\ ECCCfg = NewECCConfig("low")
    /\ frCfg = PresetFrameConfig("default")
    /\ \E f \in {2 + 4 * 2 + 2} :
          data = Payload(ShortestOf(f, capacityFrame0, capacityOthers), 0)
    /\ totalFrames = FrameCount(Len(data), capacityFrame0, capacityOthers)
    /\ emitted = << [Index |-> 0,
                     Data |-> DispatcherJobData(data, 0, capacityFrame0,
                                                capacityOthers)] >>
    /\ workers = << [job |-> emitted, exited |-> FALSE], IdleWorker >>
    /\ jobs = << >> /\ closed = {} /\ rand = 0 /\ sample = NoSample
    /\ results = << >> /\ pending = << >> /\ nextFrameIndex = 0
    /\ written = << >> /\ completed = 0 /\ framePaths = << >>
    /\ resultsMap = << >> /\ allData = << >> /\ output = NoOutput
    /\ err = "" /\ corrupted = {} /\ cluster = NoCluster

NextFlight ==
    \/ Dispatch \/ CloseJobs
    \/ \E w \in 2..Threads : WorkerTake(w)
    \/ \E w \in 2..Threads : WorkerRender(w, FALSE)
    \/ \E w \in 2..Threads : WorkerExit(w)
    \/ Collect(FALSE)

SpecFlight == InitFlight /\ [][NextFlight]_vars

(* A cluster encode: the master and one Worker node of one or two          *)
(* processLoops, payloads of one to MaxClusterFrames frames, and every      *)
(* outcome of every POST of the sendLoop.                                   *)
InitMaster ==
    /\ pc = "runMaster"
    /\ \E threads \in 1..2 : NewVideoEncoder("default", "low", threads)
    /\ \E f \in 1..MaxClusterFrames :
          data = Payload(ShortestOf(f, capacityFrame0, capacityOthers), 0)
    /\ rand = 0
    /\ Untouched

NextMaster ==
    \/ MasterCountFrames \/ AddJob \/ FinishAddingJobs \/ StartDistribution
    \/ FetchBatch
    \/ \E w \in 1..Threads : ProcessTake(w)
    \/ \E w \in 1..Threads : ProcessFrame(w)
    \/ \E w \in 1..Threads : ProcessExit(w)
    \/ SendReceive
    \/ \E outcome \in PostOutcomes : Post(outcome)
    \/ MasterCollect \/ MasterFinish

SpecMaster == InitMaster /\ [][NextMaster]_vars

(* The master's FIFO and the fetchLoop of one Worker node whose only        *)
(* processLoop is slow: payloads of one frame, of one full batch and of     *)
(* one job more, and every outcome of every GET /batch, before and after    *)
(* the operator's ENTER.                                                    *)
InitGate ==
    /\ pc = "runMaster"
    /\ NewVideoEncoder("default", "high", 1)
    /\ \E f \in {1, BatchSize, BatchSize + 1} :
          data = Payload(ShortestOf(f, capacityFrame0, capacityOthers), 0)
    /\ rand = 0
    /\ Untouched

NextGate ==
    \/ MasterCountFrames \/ AddJobs \/ FinishAddingJobs \/ StartDistribution
    \/ \E outcome \in GetOutcomes : GetBatch(outcome)
    \/ \E w \in 1..Threads : ProcessTake(w)

SpecGate == InitGate /\ [][NextGate]_vars

(* The Worker process (ncc -mode=worker) once its fetchLoop has received    *)
(* 204 and its processLoop has worked through every job before sendLoop     *)
(* received a result: resultChan holds the results of the jobs of an        *)
(* encode of one frame or of one batch and one frame more, in FrameIndex    *)
(* order.  The payload and the FIFO are the master's and no part of this    *)
(* process; results is what handlePostBatch has put in master.Results.      *)
(* Ticks fall anywhere, every POST succeeds, and the master collects        *)
(* nothing meanwhile, so that master.Results fills up.                      *)
InitSend ==
    /\ pc = "sendLoop"
    /\ NewVideoEncoder("default", "high", 1)
    /\ rand = 0 /\ data = << >> /\ sample = NoSample
    /\ totalFrames = 0 /\ jobs = << >> /\ emitted = << >>
    /\ closed = {"jobChan"}
    /\ results = << >> /\ pending = << >> /\ nextFrameIndex = 0
    /\ written = << >> /\ completed = 0 /\ framePaths = << >>
    /\ resultsMap = << >> /\ allData = << >> /\ output = NoOutput
    /\ err = "" /\ corrupted = {}
    /\ \E f \in {1, BatchSize + 1} :
       \E d \in {Payload(ShortestOf(f, capacityFrame0, capacityOthers), 0)} :
          cluster =
              [NoCluster EXCEPT
                  !.running = TRUE, !.stop = TRUE,
                  !.response = [code |-> 204, batch |-> << >>],
                  !.JobsSent = f,
                  !.resultChan =
                      [n \in 1..f |->
                          FrameResultOf(
                              [FrameIndex |-> n - 1,
                               Data |-> MasterJobData(d, n - 1, capacityFrame0,
                                                      capacityOthers)],
                              f, rand)]]

(* The Worker process once its fetchLoop has put the jobs of an encode of   *)
(* three frames in jobChan: two processLoops, each with its own img, take   *)
(* and draw them in every interleaving, at 1280x720 and at 1920x1080.       *)
(* config holds TotalFrames; the payload is the master's.                   *)
InitDraw ==
    /\ pc = "processLoop"
    /\ \E p \in {"default", "youtube"} :
          /\ preset = p /\ level = "low" /\ ECCCfg = NewECCConfig("low")
          /\ frCfg = PresetFrameConfig(p)
          /\ workers = [w \in 1..2 |->
                           [job |-> << >>, exited |-> FALSE,
                            img |-> NewRGBA(PresetFrameConfig(p))]]
    /\ rand = MaxPad /\ data = << >> /\ sample = NoSample
    /\ totalFrames = 3 /\ jobs = << >> /\ emitted = << >>
    /\ closed = {"jobChan"}
    /\ results = << >> /\ pending = << >> /\ nextFrameIndex = 0
    /\ written = << >> /\ completed = 0 /\ framePaths = << >>
    /\ resultsMap = << >> /\ allData = << >> /\ output = NoOutput
    /\ err = "" /\ corrupted = {}
    /\ \E d \in {Payload(ShortestOf(totalFrames, capacityFrame0,
                                      capacityOthers), 0)} :
          cluster =
              [NoCluster EXCEPT
                  !.running = TRUE, !.stop = TRUE,
                  !.response = [code |-> 204, batch |-> << >>],
                  !.JobsSent = totalFrames,
                  !.jobChan =
                      [n \in 1..totalFrames |->
                          [FrameIndex |-> n - 1,
                           Data |-> MasterJobData(d, n - 1, capacityFrame0,
                                                  capacityOthers)]]]

NextDraw ==
    \/ \E w \in 1..Threads : ProcessTake(w)
    \/ \E w \in 1..Threads : ProcessDraw(w)
    \/ \E w \in 1..Threads : ProcessExit(w)

SpecDraw == InitDraw /\ [][NextDraw]_vars

(* Worker.Run from the point where fetchLoop has received 204 with the     *)
(* jobs of the last batch in jobChan and has returned, closing jobChan:     *)
(* two processLoops and the sendLoop go on, every POST succeeds.  Each      *)
(* goroutine that can take a step is scheduled in the end, and the ticker   *)
(* of sendLoop keeps firing.                                                *)
InitRun ==
    /\ pc = "Worker.Run"
    /\ NewVideoEncoder("default", "high", 2)
    /\ rand = 0 /\ data = << >> /\ sample = NoSample
    /\ \E f \in 1..MaxFrames : totalFrames = f
    /\ jobs = << >> /\ emitted = << >>
    /\ closed = {"jobChan"}
    /\ results = << >> /\ pending = << >> /\ nextFrameIndex = 0
    /\ written = << >> /\ completed = 0 /\ framePaths = << >>
    /\ resultsMap = << >> /\ allData = << >> /\ output = NoOutput
    /\ err = "" /\ corrupted = {}
    /\ \E d \in {Payload(ShortestOf(totalFrames, capacityFrame0,
                                      capacityOthers), 0)} :
          cluster =
              [NoCluster EXCEPT
                  !.running = TRUE, !.stop = TRUE,
                  !.response = [code |-> 204, batch |-> << >>],
                  !.JobsSent = totalFrames,
                  !.jobChan =
                      [n \in 1..totalFrames |->
                          [FrameIndex |-> n - 1,
                           Data |-> MasterJobData(d, n - 1, capacityFrame0,
                                                  capacityOthers)]]]

NextRun ==
    \/ \E w \in 1..Threads : ProcessTake(w)
    \/ \E w \in 1..Threads : ProcessFrame(w)
    \/ \E w \in 1..Threads : ProcessExit(w)
    \/ SendReceive \/ Post("ok")

\* processLoop w holds a job and resultChan has room: ProcessFrame(w) is enabled
FrameReady(w) ==
    /\ w \in 1..Threads
    /\ ~workers[w].exited /\ workers[w].job # << >>
    /\ Len(cluster.resultChan) < 2 * BatchSize

(* Weak fairness of the goroutines of Worker.Run; that of ProcessFrame is   *)
(* written out, with FrameReady for its enabling condition.                 *)
FairRun ==
    /\ \A w \in 1..2 :
          /\ WF_vars(w \in 1..Threads /\ ProcessTake(w))
          /\ \/ []<>(~FrameReady(w))
             \/ []<><<w \in 1..Threads /\ ProcessFrame(w)>>_vars
          /\ WF_vars(w \in 1..Threads /\ ProcessExit(w))
    /\ WF_vars(SendReceive) /\ WF_vars(Post("ok"))

SpecRun == InitRun /\ [][NextRun]_vars /\ FairRun

(* A Master whose distribution is started while its jobs are still being   *)
(* added: AddJob, FinishAddingJobs and the GET /batch handlers of two       *)
(* Workers interleave in every way, each handler in its two critical        *)
(* sections, for jobs of one to MaxFrames frames.  A Worker asks again      *)
(* after 200 and 202 and stops at 204.                                      *)
InitFifo ==
    /\ pc = "addJobs"
    /\ preset = "default" /\ level = "high" /\ ECCCfg = NewECCConfig("high")
    /\ frCfg = PresetFrameConfig("default")
    /\ workers = [k \in 1..2 |-> IdleHandler]
    /\ rand = 0 /\ sample = NoSample
    /\ \E f \in 1..MaxFrames :
          /\ totalFrames = f
          /\ data = Payload(ShortestOf(f, capacityFrame0, capacityOthers), 0)
    /\ jobs = << >> /\ emitted = << >> /\ closed = {}
    /\ results = << >> /\ pending = << >> /\ nextFrameIndex = 0
    /\ written = << >> /\ completed = 0 /\ framePaths = << >>
    /\ resultsMap = << >> /\ allData = << >> /\ output = NoOutput
    /\ err = "" /\ corrupted = {}
    /\ cluster = [NoCluster EXCEPT !.running = TRUE]

NextFifo ==
    \/ AddJob \/ FinishAddingJobs
    \/ \E k \in 1..Threads : HandlerTake(k)
    \/ \E k \in 1..Threads : HandlerHasJobs(k)

SpecFifo == InitFifo /\ [][NextFifo]_vars

NextSend == SendReceive \/ Post("ok")

SpecSend == InitSend /\ [][NextSend]_vars

-----------------------------------------------------------------------------
(* Specifications of the round trip *)

\* the rasters are delivered unmodified and in the order written
InOrder == [n \in 1..Len(written) |-> n]

\* the rasters are delivered in any order, or all but one of them are
Presentations ==
    Arrangements(1..Len(written), Len(written))
        \cup (IF Len(written) > 1
              THEN Arrangements(1..Len(written), Len(written) - 1) ELSE {})

\* the steps of EncodeFile with the rasters drawn in full
NextEncodeFile ==
    \/ CountFrames \/ Dispatch \/ CloseJobs \/ CloseResults
    \/ \E w \in 1..Threads : WorkerTake(w)
    \/ \E w \in 1..Threads : WorkerRender(w, TRUE)
    \/ \E w \in 1..Threads : WorkerExit(w)
    \/ Collect(TRUE) \/ Finish

\* the steps of the workers and of the collector of ReconstructFile
NextReconstructFile ==
    \/ \E w \in 1..Threads : DecodeTake(w)
    \/ \E w \in 1..Threads :
          \E below \in (IF frCfg.GrayLevels = 4 THEN BOOLEAN ELSE {FALSE}) :
             DecodeFrame(w, below)
    \/ \E w \in 1..Threads : DecodeExit(w)
    \/ CloseResultChan \/ CollectResult \/ Assemble

(* EncodeFile, then ExtractFrames and ReconstructFile on the rasters as     *)
(* written: every preset and level with a payload of one byte, and the      *)
(* two-level presets also with the shortest payload of two frames.          *)
InitCodec ==
    /\ pc = "EncodeFile"
    /\ \E p \in PresetNames, lv \in LevelNames : NewVideoEncoder(p, lv, 1)
    /\ \E n \in {1} \cup (IF FrameCfg.GrayLevels = 2
                          THEN {ShortestOf(2, capacityFrame0, capacityOthers)}
                          ELSE {}) : data = Payload(n, 0)
    /\ rand = 0
    /\ Untouched

NextCodec ==
    \/ NextEncodeFile
    \/ ExtractFrames(InOrder) \/ StartReconstruct(1)
    \/ NextReconstructFile

SpecCodec == InitCodec /\ [][NextCodec]_vars

\* the sets of shards damaged: each shard alone, and all the parity shards
ShardSets ==
    LET k == ECCCfg.DataShards
        m == ECCCfg.ParityShards
    IN  {{j} : j \in 1..(k + m)} \cup {(k + 1)..(k + m)}

(* One frame of the default preset, at every level, damaged on the channel  *)
(* in one set of shards and then reconstructed.                             *)
InitCorrupt ==
    /\ pc = "EncodeFile"
    /\ \E lv \in LevelNames : NewVideoEncoder("default", lv, 1)
    /\ data = Payload(37, 0)
    /\ rand = 0
    /\ Untouched

NextCorrupt ==
    \/ NextEncodeFile
    \/ \E S \in ShardSets, damage \in Damages : Corrupt(S, damage)
    \/ ExtractFrames(InOrder) \/ StartReconstruct(1)
    \/ NextReconstructFile

SpecCorrupt == InitCorrupt /\ [][NextCorrupt]_vars

(* A video of two to MaxFrames frames whose rasters reach ReconstructFile   *)
(* in any order, or with one of them dropped.  Two workers race on one or   *)
(* two rasters; more rasters are decoded by one worker.                     *)
InitReconstruct ==
    /\ pc = "EncodeFile"
    /\ NewVideoEncoder("default", "high", 1)
    /\ \E f \in 2..MaxFrames :
          data = Payload(ShortestOf(f, capacityFrame0, capacityOthers), 0)
    /\ rand = 0
    /\ Untouched

NextReconstruct ==
    \/ NextEncodeFile
    \/ \E presented \in Presentations : ExtractFrames(presented)
    \/ \E threads \in 1..(IF Len(framePaths) > 2 THEN 1 ELSE 2) :
          StartReconstruct(threads)
    \/ NextReconstructFile

SpecReconstruct == InitReconstruct /\ [][NextReconstruct]_vars

(* One frame of the default and of the dense preset, extracted from a video *)
(* that changed the luminances, and reconstructed.                          *)
InitGrade ==
    /\ pc = "EncodeFile"
    /\ \E p \in {"default", "dense"} : NewVideoEncoder(p, "low", 1)
    /\ data = Payload(37, 0)
    /\ rand = 0
    /\ Untouched

NextGrade ==
    \/ NextEncodeFile
    \/ \E curve \in ToneCurves : ExtractGraded(InOrder, curve)
    \/ StartReconstruct(1)
    \/ NextReconstructFile

SpecGrade == InitGrade /\ [][NextGrade]_vars

\* the places of the data region that the channel changes: its first byte,
\* the last byte of the GlobalHeader, the first byte after it, the last byte
MutatedPlaces ==
    {0, GlobalHeaderSizeBytes - 1, GlobalHeaderSizeBytes,
     GlobalHeaderSizeBytes + capacityFrame0 - 1}

(* A video of two frames of the default preset, at every level, in which    *)
(* the channel changes one byte of the data region of one frame.            *)
InitMutate ==
    /\ pc = "EncodeFile"
    /\ \E lv \in LevelNames : NewVideoEncoder("default", lv, 1)
    /\ data = Payload(ShortestOf(2, capacityFrame0, capacityOthers), 0)
    /\ rand = 0
    /\ Untouched

NextMutate ==
    \/ NextEncodeFile
    \/ \E n \in 0..1, at \in MutatedPlaces, delta \in Deltas :
          MutateByte(n, at, delta)
    \/ ExtractFrames(InOrder) \/ StartReconstruct(1)
    \/ NextReconstructFile

SpecMutate == InitMutate /\ [][NextMutate]_vars

\* the encoder of the legacy format: 16 data and 48 parity shards
LegacyVideoEncoder(p, threads) ==
    /\ preset = p /\ level = "legacy"
    /\ ECCCfg = ReconstructorECC
    /\ frCfg = PresetFrameConfig(p)
    /\ workers = [w \in 1..threads |-> IdleWorker]

(* A video of one or two frames of the default preset, from the encoder at  *)
(* one of its levels or from the legacy encoder, reconstructed.             *)
InitLegacy ==
    /\ pc = "EncodeFile"
    /\ \/ \E lv \in LevelNames : NewVideoEncoder("default", lv, 1)
       \/ LegacyVideoEncoder("default", 1)
    /\ \E f \in 1..2 :
          data = Payload(ShortestOf(f, capacityFrame0, capacityOthers), 0)
    /\ rand = 0
    /\ Untouched

NextLegacy ==
    \/ NextEncodeFile
    \/ LegacyHeaders
    \/ ExtractFrames(InOrder) \/ StartReconstruct(1)
    \/ NextReconstructFile

SpecLegacy == InitLegacy /\ [][NextLegacy]_vars

(* A video of one frame of every preset, or of two frames of the binary     *)
(* presets, rendered with one of the padding patterns and reconstructed.    *)
InitPadding ==
    /\ pc = "EncodeFile"
    /\ \E p \in PresetNames : NewVideoEncoder(p, "low", 1)
    /\ \E n \in {37} \cup (IF FrameCfg.GrayLevels = 2
                           THEN {ShortestOf(2, capacityFrame0, capacityOthers)}
                           ELSE {}) : data = Payload(n, 0)
    /\ \E pad \in 0..MaxPad : rand = pad
    /\ Untouched

SpecPadding == InitPadding /\ [][NextCodec]_vars

\* the preset the decode command hands to NewFrameReconstructor when the
\* user names none
ReconstructorPreset == "default"

\* NewFrameReconstructor(preset): fr.FrameCfg
NewFrameReconstructor(p) == frCfg = PresetFrameConfig(p)

(* A video of one or two frames, encoded with the youtube or the default    *)
(* preset at any level, reconstructed by a FrameReconstructor built for the *)
(* default preset.                                                          *)
InitMismatch ==
    /\ pc = "EncodeFile"
    /\ \E p \in {"youtube", "default"}, lv \in LevelNames :
          /\ preset = p /\ level = lv
          /\ ECCCfg = NewECCConfig(lv)
          /\ workers = [w \in 1..1 |-> IdleWorker]
    /\ NewFrameReconstructor(ReconstructorPreset)
    /\ \E f \in 1..2 :
          data = Payload(ShortestOf(f, capacityFrame0, capacityOthers), 0)
    /\ rand = 0
    /\ Untouched

NextMismatch ==
    \/ NextEncodeFile
    \/ ExtractFrames(InOrder) \/ StartReconstruct(1)
    \/ NextReconstructFile

SpecMismatch == InitMismatch /\ [][NextMismatch]_vars

(* A video of one or two frames, encoded with the youtube preset, decoded   *)
(* by two workers of a FrameReconstructor built for the default preset.     *)
InitRace ==
    /\ pc = "EncodeFile"
    /\ \E lv \in LevelNames :
          /\ preset = "youtube" /\ level = lv
          /\ ECCCfg = NewECCConfig(lv)
          /\ workers = [w \in 1..1 |-> IdleWorker]
    /\ NewFrameReconstructor(ReconstructorPreset)
    /\ \E f \in 1..2 :
          data = Payload(ShortestOf(f, capacityFrame0, capacityOthers), 0)
    /\ rand = 0
    /\ Untouched

\* the stages of the size scan (1 .. len(testSizes)) that are disturbed
RacedStages == {3, 4}

NextRace ==
    \/ NextEncodeFile
    \/ ExtractFrames(InOrder) \/ StartReconstruct(2)
    \/ NextReconstructFile
    \/ \E w, v \in 1..Threads, stage \in RacedStages :
             DecodeFrameRacing(w, v, FALSE, stage)

SpecRace == InitRace /\ [][NextRace]_vars

-----------------------------------------------------------------------------
(* macro_pixel.go: a 2-bit value painted as a luminance, disturbed on the   *)
(* channel and read back, by GrayToByte as the level test of the debug     *)
(* tool does and by DynGrayToNibble as readBytesFromImage does              *)

\* the largest disturbance of a luminance on the channel
MaxDeviation == 32

\* a luminance stays in 0..255
Clamp(v) == IF v < 0 THEN 0 ELSE IF v > 255 THEN 255 ELSE v

\* the raster EncodeFile draws for frame 0 of the payload
FirstRaster ==
    LET total == FrameCount(Len(data), capacityFrame0, capacityOthers)
        chunk == DispatcherJobData(data, 0, capacityFrame0, capacityOthers)
        frame == NewFrame(FrameCfg, ECCCfg, 0, chunk, total)
    IN  drawFrameToBuffer(FrameCfg, Render(frame, rand).pixels)

\* calibrateLevels: its fallback
FallbackLevels == << 64, 128, 192 >>

\* gray := NibbleToGray(b)
PaintSample ==
    /\ pc = "NibbleToGray"
    /\ sample' = [sample EXCEPT !.gray = NibbleToGray(sample.bits)]
    /\ pc' = "channel"
    /\ UNCHANGED << preset, level, ECCCfg, data, totalFrames, jobs, emitted,
                    closed, rand, results, pending, nextFrameIndex, written,
                    workers, completed, framePaths, frCfg, resultsMap,
                    allData, output, err, corrupted, cluster >>

\* the channel moves the luminance by sample.dev
DeviateSample ==
    /\ pc = "channel"
    /\ sample' = [sample EXCEPT !.gray = Clamp(sample.gray + sample.dev)]
    /\ pc' = "read"
    /\ UNCHANGED << preset, level, ECCCfg, data, totalFrames, jobs, emitted,
                    closed, rand, results, pending, nextFrameIndex, written,
                    workers, completed, framePaths, frCfg, resultsMap,
                    allData, output, err, corrupted, cluster >>

\* decoded := GrayToByte(gray), of a painted value or of a test luminance
ReadSampleFixed ==
    /\ pc \in {"read", "GrayToByte"}
    /\ sample' = [sample EXCEPT !.back = [val |-> GrayToByte(sample.gray),
                                          thresholds |-> << >>]]
    /\ pc' = IF pc = "read" THEN "decoded" ELSE "edge"
    /\ UNCHANGED << preset, level, ECCCfg, data, totalFrames, jobs, emitted,
                    closed, rand, results, pending, nextFrameIndex, written,
                    workers, completed, framePaths, frCfg, resultsMap,
                    allData, output, err, corrupted, cluster >>

\* val = DynGrayToNibble(avgY, thresholds), thresholds from calibrateLevels
ReadSampleDyn(thresholds) ==
    /\ pc = "read"
    /\ sample' = [sample EXCEPT
                     !.back = [val |-> DynGrayToNibble(sample.gray, thresholds),
                               thresholds |-> thresholds]]
    /\ pc' = "decoded"
    /\ UNCHANGED << preset, level, ECCCfg, data, totalFrames, jobs, emitted,
                    closed, rand, results, pending, nextFrameIndex, written,
                    workers, completed, framePaths, frCfg, resultsMap,
                    allData, output, err, corrupted, cluster >>

(* Every 2-bit value under every disturbance up to MaxDeviation, and every  *)
(* luminance 0..255 read directly; the thresholds are the fallback and      *)
(* those calibrated on the raster of a one-frame file of the dense preset.  *)
InitGray ==
    /\ NewVideoEncoder("dense", "low", 1)
    /\ data = Payload(37, 0) /\ rand = 0
    /\ UntouchedRun
    /\ \/ /\ pc = "NibbleToGray"
          /\ \E b \in 0..3, d \in (0 - MaxDeviation)..MaxDeviation :
                sample = [NoSample EXCEPT !.bits = b, !.dev = d]
       \/ /\ pc = "GrayToByte"
          /\ \E g \in 0..255 : sample = [NoSample EXCEPT !.gray = g]

NextGray ==
    \/ PaintSample \/ DeviateSample \/ ReadSampleFixed
    \/ /\ pc = "read"
       /\ \E thresholds \in {FallbackLevels, calibrateLevels(FirstRaster)} :
             ReadSampleDyn(thresholds)

SpecGray == InitGray /\ [][NextGray]_vars

-----------------------------------------------------------------------------
(* macro_pixel.go, second part: EncryptWithHash and DecryptWithHash.  The   *)
(* primitives are outside the repository and are kept by their shapes: a    *)
(* key derivation that depends on password and salt, a cipher with a nonce  *)
(* whose Open fails unless the tag fits key, nonce and ciphertext, a keyed  *)
(* MAC of 32 bytes.                                                         *)

SecureHeaderSize == 48
SaltSize == 16
NonceSize == 12
Overhead == 16

MagicNCC2 == << 78, 67, 67, 50 >>

RECURSIVE SumBytes(_)
SumBytes(s) == IF s = << >> THEN 0 ELSE (Head(s) + SumBytes(Tail(s))) % 256

\* argon2.IDKey: encKey and hmacKey from password and salt
IDKey(password, salt) ==
    [encKey |-> (password * 7 + SumBytes(salt)) % 256,
     hmacKey |-> (password * 13 + SumBytes(salt) + 1) % 256]

\* hmac.New(sha256.New, key), Write, Sum: 32 bytes
HMAC(key, text) == [j \in 1..32 |-> (key + j * (SumBytes(text) + 1)) % 256]

\* the Poly1305 tag of a ciphertext under key and nonce
Tag(key, nonce, body) ==
    [j \in 1..Overhead |->
        (key * j + SumBytes(nonce) + SumBytes(body) + Len(body)) % 256]

\* aead.Seal(nonce, nonce, plaintext, nil)
Seal(key, nonce, text) ==
    LET body == [i \in 1..Len(text) |-> (text[i] + key + nonce[1] + i) % 256]
    IN  nonce \o body \o Tag(key, nonce, body)

\* aead.Open(nil, nonce, ciphertext, nil)
Open(key, nonce, sealed) ==
    IF Len(sealed) < Overhead
    THEN [err |-> "message authentication failed", text |-> << >>]
    ELSE LET body == Slice(sealed, 0, Len(sealed) - Overhead)
             tag == Slice(sealed, Len(sealed) - Overhead, Len(sealed))
         IN  IF tag # Tag(key, nonce, body)
             THEN [err |-> "message authentication failed", text |-> << >>]
             ELSE [err |-> "",
                   text |-> [i \in 1..Len(body) |->
                                (body[i] + 512 - key - nonce[1] - i) % 256]]

\* SecureHeader.Encode
EncodeSecureHeader(sh) ==
    sh.Magic \o U64BE(sh.OriginalSize) \o sh.ContentHMAC \o sh.Reserved

\* DecodeSecureHeader
DecodeSecureHeader(s) ==
    IF Len(s) < SecureHeaderSize
    THEN [err |-> "unexpected EOF", sh |-> << >>]
    ELSE [err |-> "",
          sh |-> [Magic |-> Slice(s, 0, 4), OriginalSize |-> FromBE64(s, 4),
                  ContentHMAC |-> Slice(s, 12, 44),
                  Reserved |-> Slice(s, 44, 48)]]

(* EncryptWithHash with the salt and the nonce it drew; inner is what the   *)
(* cipher seals, the SecureHeader followed by the plaintext.                *)
SealInner(inner, password, salt, nonce) ==
    salt \o Seal(IDKey(password, salt).encKey, nonce, inner)

EncryptWithHash(plaintext, password, salt, nonce) ==
    SealInner(EncodeSecureHeader(
                  [Magic |-> MagicNCC2,
                   OriginalSize |-> << 0, Len(plaintext) >>,
                   ContentHMAC |-> HMAC(IDKey(password, salt).hmacKey,
                                        plaintext),
                   Reserved |-> Zeros(4)]) \o plaintext,
              password, salt, nonce)

OpaqueError == "failed to decrypt: invalid password or corrupted data"

DecryptWithHash(ciphertext, password) ==
    IF Len(ciphertext) < SaltSize
    THEN [err |-> "failed to decrypt: invalid data", plaintext |-> << >>]
    ELSE LET rest == Slice(ciphertext, SaltSize, Len(ciphertext))
             key == IDKey(password, Slice(ciphertext, 0, SaltSize))
         IN  IF Len(rest) < NonceSize
             THEN [err |-> OpaqueError, plaintext |-> << >>]
             ELSE LET opened == Open(key.encKey, Slice(rest, 0, NonceSize),
                                     Slice(rest, NonceSize, Len(rest)))
                  IN  IF opened.err # ""
                      THEN [err |-> OpaqueError, plaintext |-> << >>]
                      ELSE IF Len(opened.text) < SecureHeaderSize
                      THEN [err |-> OpaqueError, plaintext |-> << >>]
                      ELSE LET dec == DecodeSecureHeader(
                                          Slice(opened.text, 0,
                                                SecureHeaderSize))
                               plaintext == Slice(opened.text,
                                                  SecureHeaderSize,
                                                  Len(opened.text))
                           IN  IF dec.err # ""
                               THEN [err |-> OpaqueError, plaintext |-> << >>]
                               ELSE IF dec.sh.Magic # MagicNCC2
                               THEN [err |-> OpaqueError, plaintext |-> << >>]
                               ELSE IF << 0, Len(plaintext) >>
                                           # dec.sh.OriginalSize
                               THEN [err |-> OpaqueError, plaintext |-> << >>]
                               ELSE IF HMAC(key.hmacKey, plaintext)
                                           # dec.sh.ContentHMAC
                               THEN [err |-> OpaqueError, plaintext |-> << >>]
                               ELSE [err |-> "", plaintext |-> plaintext]

\* the call of DecryptWithHash on the blob in data with the password given
Decrypt ==
    /\ pc = "DecryptWithHash"
    /\ \E r \in {DecryptWithHash(data, sample.bits)} :
          /\ err' = r.err
          /\ output' = [written |-> r.err = "", bytes |-> r.plaintext]
    /\ pc' = "decrypted"
    /\ UNCHANGED << preset, level, ECCCfg, data, totalFrames, jobs, emitted,
                    closed, rand, results, pending, nextFrameIndex, written,
                    workers, completed, framePaths, frCfg, resultsMap,
                    allData, sample, corrupted, cluster >>

\* the password of the blob and another one
Passwords == {1, 2}

\* the plaintext sealed in the blobs
SecretText == << 10, 20, 30 >>

\* what EncryptWithHash seals for SecretText, and inner texts it never seals
InnerTexts(password, salt) ==
    LET sh == [Magic |-> MagicNCC2,
               OriginalSize |-> << 0, Len(SecretText) >>,
               ContentHMAC |-> HMAC(IDKey(password, salt).hmacKey, SecretText),
               Reserved |-> Zeros(4)]
    IN  { EncodeSecureHeader(sh) \o SecretText,
          EncodeSecureHeader([sh EXCEPT !.Magic = MagicNCC1]) \o SecretText,
          EncodeSecureHeader([sh EXCEPT !.OriginalSize = << 0, 4 >>])
              \o SecretText,
          EncodeSecureHeader([sh EXCEPT !.ContentHMAC = Zeros(32)])
              \o SecretText,
          Slice(EncodeSecureHeader(sh), 0, SecureHeaderSize - 1) }

(* The inputs of DecryptWithHash: a blob of EncryptWithHash whole, cut to   *)
(* every length and with every one of its bytes changed, blobs sealed       *)
(* around a wrong magic, size or HMAC or around a short inner text, each    *)
(* with the password of the blob and with another one.  sample.bits is the  *)
(* password given to DecryptWithHash.                                       *)
InitDecrypt ==
    /\ pc = "DecryptWithHash"
    /\ preset = "default" /\ level = "low" /\ ECCCfg = NewECCConfig("low")
    /\ frCfg = PresetFrameConfig("default")
    /\ workers = << >> /\ rand = 0
    /\ UntouchedRun
    /\ \E password \in Passwords : sample = [NoSample EXCEPT !.bits = password]
    /\ \E salt \in {[i \in 1..SaltSize |-> i]},
          nonce \in {[i \in 1..NonceSize |-> 3 * i]} :
          \E blob \in {EncryptWithHash(SecretText, 1, salt, nonce)} :
             \/ \E n \in 0..Len(blob) : data = Slice(blob, 0, n)
             \/ \E k \in 1..Len(blob) :
                   data = [blob EXCEPT ![k] = (@ + 1) % 256]
             \/ \E inner \in InnerTexts(1, salt) :
                   data = SealInner(inner, 1, salt, nonce)

NextDecrypt == Decrypt

SpecDecrypt == InitDecrypt /\ [][NextDecrypt]_vars

-----------------------------------------------------------------------------
(* Properties of the chunking *)

\* the frame count has been computed
Counted == pc \notin {"EncodeFile", "runMaster"}

\* ceil(a / b) for a >= 0, b > 0
CeilDiv(a, b) == IF a % b = 0 THEN a \div b ELSE (a \div b) + 1

(* C6: the frame count is 1 + ceil(max(0, |P| - C0) / Cn); a payload of at  *)
(* most C0 bytes takes one frame and one of C0 + Cn + 1 bytes takes three.  *)
C6_FrameCount ==
    Counted =>
        /\ totalFrames =
              1 + CeilDiv(Max(0, Len(data) - capacityFrame0), capacityOthers)
        /\ Len(data) <= capacityFrame0 => totalFrames = 1
        /\ Len(data) = capacityFrame0 + capacityOthers + 1 => totalFrames = 3

C6_Witness ==
    /\ Counted
    /\ Len(data) = capacityFrame0 + capacityOthers + 1
    /\ totalFrames = 3

\* the index of a job of EncodeFile or of runMaster
JobIndex(job) ==
    IF "Index" \in DOMAIN job THEN job.Index ELSE job.FrameIndex

\* P[C0 + (i-1)*Cn : C0 + i*Cn] truncated at |P|, and P[0 : C0] for i = 0
ClaimedJobData(i) ==
    LET lo == IF i = 0 THEN 0 ELSE capacityFrame0 + (i - 1) * capacityOthers
        hi == IF i = 0 THEN capacityFrame0
              ELSE capacityFrame0 + i * capacityOthers
    IN  SubSeq(data, lo + 1, IF hi > Len(data) THEN Len(data) ELSE hi)

\* the data of the jobs emitted so far, end to end
RECURSIVE EmittedData(_)
EmittedData(n) ==
    IF n = 0 THEN << >> ELSE EmittedData(n - 1) \o emitted[n].Data

(* C5: the dispatcher emits the jobs 0, 1, ... in order, job i with its     *)
(* slice of P, and has emitted exactly TotalFrames jobs, whose data end to  *)
(* end are P, when it closes the queue.                                     *)
C5_DispatcherJobs ==
    /\ Counted => Len(emitted) <= totalFrames
    /\ \A n \in 1..Len(emitted) :
          /\ JobIndex(emitted[n]) = n - 1
          /\ emitted[n].Data = ClaimedJobData(n - 1)
    /\ "jobs" \in closed =>
          /\ Len(emitted) = totalFrames
          /\ EmittedData(Len(emitted)) = data

C5_Witness ==
    /\ "jobs" \in closed
    /\ Len(emitted) >= 3
    /\ Len(emitted[Len(emitted)].Data) < capacityOthers

(* C7: NewECCConfig gives 16 data shards with 4, 8 and 48 parity shards    *)
(* for the levels low, medium and high.                                     *)
C7_ECCConfigLevels ==
    /\ level = "low" => ECCCfg = [DataShards |-> 16, ParityShards |-> 4]
    /\ level = "medium" => ECCCfg = [DataShards |-> 16, ParityShards |-> 8]
    /\ level = "high" => ECCCfg = [DataShards |-> 16, ParityShards |-> 48]

-----------------------------------------------------------------------------
(* Properties of rendering and of the collectors *)

\* 18 + (k + m) * ceil(DataSize / k) <= bytesPerFrame, for an encoded header
RecordFits(outline) ==
    LET DataSize == DecodeHeader(outline).DataSize
        k == ECCCfg.DataShards
        m == ECCCfg.ParityShards
    IN  /\ 18 + (k + m) * CeilDiv(DataSize, k) <= BytesInFrame(FrameCfg)
        /\ DataSize <= BytesInFrame(FrameCfg) - 18

(* C8: every frame of the chunker renders: its record of the header and    *)
(* the k + m shards fits the grid and no worker reports an error.           *)
C8_RecordFits ==
    /\ err = ""
    /\ \A n \in 1..Len(emitted) :
          Len(emitted[n].Data) <= CapacityPerFrame(FrameCfg, ECCCfg, n = 1)
    /\ \A n \in 1..Len(results) :
          results[n].Err = "" /\ RecordFits(results[n].Pixels)
    /\ \A i \in DOMAIN pending : RecordFits(pending[i])
    /\ \A n \in 1..Len(written) : RecordFits(written[n])

C8_Witness ==
    /\ pc = "encoded"
    /\ Len(written) = totalFrames
    /\ \E n \in 2..Len(written) :
          DecodeHeader(written[n]).DataSize = capacityOthers
    /\ DecodeHeader(written[1]).DataSize
          = capacityFrame0 + GlobalHeaderSizeBytes

\* the frames written so far are 0, 1, ..., in this order
WrittenInOrder ==
    \A n \in 1..Len(written) : DecodeHeader(written[n]).FrameIndex = n - 1

(* C3: whatever the interleaving of the render workers, the frames written  *)
(* to the pipe are 0, 1, 2, ... without gap or repetition, and a result     *)
(* that is ahead of the next frame to write waits in pending.               *)
C3_AscendingWrites ==
    /\ WrittenInOrder
    /\ nextFrameIndex = Len(written)
    /\ \A i \in DOMAIN pending :
          i > nextFrameIndex /\ DecodeHeader(pending[i]).FrameIndex = i
    /\ pc = "encoded" => Len(written) = totalFrames /\ DOMAIN pending = {}

C3_Witness ==
    /\ written # << >>
    /\ \E i \in DOMAIN pending : i > nextFrameIndex

(* C4: when the collection loop of runMaster ends, the frames written to    *)
(* the pipe are exactly 0 .. TotalFrames-1, once each, in ascending order,  *)
(* whatever the order and the repetitions of the results received.          *)
C4_ClusterWritesAll ==
    pc = "masterDone" =>
        /\ Len(written) = totalFrames
        /\ WrittenInOrder

-----------------------------------------------------------------------------
(* Properties of the round trip *)

\* ReconstructFile has returned
Reconstructed == pc = "reconstructed"

(* C1: the rasters of EncodeFile, handed unmodified and in order to         *)
(* ReconstructFile, give back the payload byte for byte, for every preset   *)
(* and every redundancy level.                                              *)
C1_RoundTrip ==
    Reconstructed => err = "" /\ output.written /\ output.bytes = data

(* C2: with the header intact and at most m of the k + m shards damaged,    *)
(* processFrame returns the original data region of the frame.              *)
C2_ShardsRecovered ==
    pc \in {"decode", "reconstructed"}
        /\ Cardinality(corrupted) <= ECCCfg.ParityShards =>
        /\ \A n \in 1..Len(results) :
              results[n].err = "" /\ results[n].data = data
        /\ \A i \in DOMAIN resultsMap : resultsMap[i].data = data
        /\ Reconstructed => err = ""

\* the payloads of the decoded frames of FrameIndex 0 .. n-1, end to end
RECURSIVE PayloadsByFrameIndex(_)
PayloadsByFrameIndex(n) ==
    IF n = 0 THEN << >>
    ELSE LET at == {i \in DOMAIN resultsMap :
                        resultsMap[i].frameHeader.FrameIndex = n - 1}
         IN  PayloadsByFrameIndex(n - 1)
                \o (IF at = {} THEN << >>
                    ELSE resultsMap[CHOOSE i \in at : TRUE].data)

(* C9: the output is the payloads of the decoded frames in ascending order  *)
(* of the FrameIndex of their headers, whatever the order in which the      *)
(* rasters were presented.                                                  *)
C9_FrameIndexOrder ==
    Reconstructed /\ output.written =>
        output.bytes = PayloadsByFrameIndex(totalFrames)

\* the FrameIndex values of the frames decoded
DecodedIndices ==
    {resultsMap[i].frameHeader.FrameIndex : i \in DOMAIN resultsMap}

(* C10: when a FrameIndex of 0 .. TotalFrames-1 is absent from the decoded  *)
(* frames, ReconstructFile fails and writes no output.                      *)
C10_MissingIndexFatal ==
    Reconstructed /\ (\E i \in 0..(totalFrames - 1) : i \notin DecodedIndices)
        => err # "" /\ ~output.written

-----------------------------------------------------------------------------
(* Properties of the conversions between values and luminances *)

\* GrayToByte has read back a value painted by NibbleToGray and not disturbed
ReadBackUndisturbed ==
    pc = "decoded" /\ sample.dev = 0 /\ sample.back.thresholds = << >>

(* C17: GrayToByte(NibbleToGray(b)) = b for every b in 0..3, and            *)
(* GrayToByte(g) is 0 for g < 64, 1 for 64 <= g < 128, 2 for                *)
(* 128 <= g < 192 and 3 for g >= 192, for every g in 0..255.                *)
C17_GrayToByte ==
    /\ ReadBackUndisturbed => sample.back.val = sample.bits
    /\ pc = "edge" =>
          /\ sample.gray < 64 => sample.back.val = 0
          /\ sample.gray >= 64 /\ sample.gray < 128 => sample.back.val = 1
          /\ sample.gray >= 128 /\ sample.gray < 192 => sample.back.val = 2
          /\ sample.gray >= 192 => sample.back.val = 3

\* a luminance on a threshold has been read, to the value above it
C17_Witness == pc = "edge" /\ sample.gray = 128 /\ sample.back.val = 2

(* C16: in 4-level mode a value v painted at its level and disturbed by d,  *)
(* |d| <= 32, clamped to 0..255, is read back as v by the decoder, with the *)
(* fallback thresholds and with the thresholds calibrateLevels derives from *)
(* the raster.                                                              *)
C16_LevelTolerance ==
    pc = "decoded" /\ sample.back.thresholds # << >> =>
        sample.back.val = sample.bits


-----------------------------------------------------------------------------
(* Properties of the decoder's calibration and recovery *)

\* the rasters ReconstructFile was given
Extracted == {framePaths[n].img : n \in 1..Len(framePaths)}

(* C15: when the calibration bar of a frame measures W - B < 10 the decoder *)
(* reads the frame with the binary threshold 128 and the 4-level thresholds *)
(* 64, 128, 192; otherwise the binary threshold is (B + W) / 2.             *)
C15_CalibrationFallback ==
    Reconstructed =>
        \A r \in Extracted :
            \E a \in {SectionAverages(r)} :
                IF a.white - a.black < 10
                THEN IF frCfg.GrayLevels = 2
                     THEN calibrateFrame(r) = 128
                     ELSE calibrateLevels(r) = << 64, 128, 192 >>
                ELSE calibrateFrame(r) = (a.black + a.white) \div 2

\* the FrameCfg processFrame works with on raster r when the reconstructor
\* holds its preset's configuration
ConfiguredFor(r) ==
    [PresetFrameConfig(preset) EXCEPT !.Width = r.Width, !.Height = r.Height]

\* how processFrame settles the read of raster r
RecoveryOf(r) ==
    Only({Recovery(r, ConfiguredFor(r), threshold, levels, FALSE) :
            threshold \in {calibrateFrame(r)},
            levels \in {calibrateLevels(r)}})

\* the thresholds 30, 35, .., 215, 220
ScanThresholds == {30 + 5 * n : n \in 0..38}

\* those of ScanThresholds at which the header of raster r at the configured
\* geometry carries the magic
MagicThresholds(r) ==
    {t \in ScanThresholds :
        MagicAt(r, ConfiguredFor(r), t, calibrateLevels(r), 0, 0)}

(* C14: in binary mode, once the geometry scan has failed, the frame is     *)
(* read with the first threshold of 30, 35, .., 215, 220 at which the       *)
(* header at the configured geometry carries the magic 'NCC1'.              *)
C14_ThresholdScan ==
    Reconstructed /\ frCfg.GrayLevels = 2 =>
        \A r \in Extracted :
            \E rec \in {RecoveryOf(r)} :
                rec.scan = "threshold" =>
                    \E hits \in {MagicThresholds(r)} :
                        hits # {} =>
                            rec.found /\ rec.threshold = First(hits)

\* no scan of processFrame finds the header magic of raster r, whichever way
\* the level scan's products round
Unrecoverable(r) ==
    \A below \in BOOLEAN :
        \E rec \in {Recovery(r, ConfiguredFor(r), calibrateFrame(r),
                             calibrateLevels(r), below)} : ~rec.found

(* C11: when no scan recovers the header magic of a frame, ReconstructFile  *)
(* fails at the final assembly with "missing result for frame i" and writes *)
(* no output file.                                                          *)
C11_LostFrameMissingResult ==
    Reconstructed /\ (\E r \in Extracted : Unrecoverable(r)) =>
        err = "missing result" /\ ~output.written

-----------------------------------------------------------------------------
(* Properties of the rasters *)

(* C19: in every raster written, the rows above the data carry four         *)
(* sections of a quarter of the width each, BLACK, WHITE, BLACK, WHITE,     *)
(* at the luminances the encoder paints for bit 0 and for bit 1.            *)
C19_CalibrationBar ==
    \A n \in 1..Len(written) :
        \E r \in {written[n]} :
            \A s \in 0..3 :
                \A x \in {s * (r.Width \div 4), (s + 1) * (r.Width \div 4) - 1} :
                    \A y \in {0, CalibrationBarHeight - 1} :
                        Lum(r, x, y) = BitToGray(s % 2)

\* frame n (0-based) as the render worker builds it
RenderedFrame(n) ==
    NewFrame(FrameCfg, ECCCfg, n,
             DispatcherJobData(data, n, capacityFrame0, capacityOthers),
             totalFrames)

\* the luminance at the top left pixel of cell idx (0-based) of the grid of
\* fc laid out row by row below the bar
CellLum(r, fc, idx) ==
    Lum(r, (idx % GridCols(fc)) * fc.MacroSize,
        CalibrationBarHeight + (idx \div GridCols(fc)) * fc.MacroSize)

(* C18: in every raster written, cell 8j+i (binary) shows bit 7-i of byte j *)
(* and cell 4j+i (4-level) shows the two bits at shift 6-2i of byte j of    *)
(* the bytes Render serialized, the cells lying row by row; and             *)
(* readBytesFromImage, reading each cell with the thresholds that separate  *)
(* the painted luminances (128, and 64, 128, 192), gives those bytes back.  *)
C18_BitPacking ==
    pc = "encoded" =>
        \A n \in 1..Len(written) :
            \E r \in {written[n]} :
            \E bytes \in {allBytes(RenderedFrame(n - 1), rand + n - 1)} :
                /\ \A j \in 0..(Len(bytes) - 1) :
                      IF FrameCfg.GrayLevels = 2
                      THEN \A i \in 0..7 :
                              CellLum(r, FrameCfg, 8 * j + i)
                                 = BitToGray((bytes[j + 1] \div 2 ^ (7 - i)) % 2)
                      ELSE \A i \in 0..3 :
                              CellLum(r, FrameCfg, 4 * j + i)
                                 = NibbleToGray(
                                      (bytes[j + 1] \div 2 ^ (6 - 2 * i)) % 4)
                /\ readBytesFromImage(r, FrameCfg, 128, FallbackLevels, 0, 0)
                      = bytes

C18_Witness ==
    /\ pc = "encoded" /\ Len(written) = 1
    /\ FrameCfg.GrayLevels = 4
    /\ \A i \in 0..3 :
          ReadByte(written[1], FrameCfg, 128, FallbackLevels, 0, 0, i)
             = MagicNCC1[i + 1]

(* C13: a MacroSize that the geometry scan adopts for one frame is used for *)
(* that frame only: every frame a worker is about to process finds the      *)
(* MacroSize the reconstructor was configured with.                         *)
C13_MacroSizeThisFrameOnly ==
    pc = "decode" =>
        \A w \in 1..Threads :
            workers[w].job # << >> =>
                frCfg.MacroSize
                    = PresetFrameConfig(ReconstructorPreset).MacroSize

-----------------------------------------------------------------------------
(* Properties of a frame changed in one byte *)

\* the raster of frame n (0-based) is as EncodeFile wrote it
AsWritten(n) ==
    written[n + 1]
        = drawFrameToBuffer(FrameCfg, Render(RenderedFrame(n), rand + n).pixels)

\* the frames decoded whose raster the channel changed
ChangedResults == {i \in DOMAIN resultsMap : ~AsWritten(i)}

\* crcWarnings: the results collected with crcOK = false
crcWarnings == Cardinality({i \in DOMAIN resultsMap : ~resultsMap[i].crcOK})

\* the places at which two sequences of one length differ
Differences(a, b) == {k \in 1..Len(a) : a[k] # b[k]}

\* ReconstructFile warns once, keeps the data and writes a file of the length
\* of the payload
WarnedAndWritten ==
    Reconstructed /\ corrupted # {} =>
        /\ err = "" /\ output.written
        /\ crcWarnings = 1
        /\ Len(output.bytes) = Len(data)

-----------------------------------------------------------------------------
(* Properties of the parity shard count in the FrameHeader *)

\* the ParityShards byte that the raster r of the configured geometry shows
ShownParityShards(r) ==
    ReadByte(r, FrameCfg, 128, FallbackLevels, 0, 0, ParityShardsOffset)

(* C20: every header NewFrame writes carries the parity shard count of the  *)
(* encoder, which is not 0; processFrame decodes a frame whose header       *)
(* carries 0 with 48 parity shards and a frame whose header carries p # 0   *)
(* with p.                                                                  *)
C20_ParityShards ==
    /\ level \in LevelNames =>
          \A n \in 1..Len(written) :
              /\ RenderedFrame(n - 1).Header.ParityShards = ECCCfg.ParityShards
              /\ ShownParityShards(written[n]) = ECCCfg.ParityShards
              /\ ShownParityShards(written[n]) # 0
    /\ Reconstructed =>
          \A r \in Extracted :
              \E res \in {processFrame(r, frCfg, FALSE)} :
                  /\ res.err = ""
                  /\ res.header.ParityShards = ShownParityShards(r)
                  /\ res.parity = IF ShownParityShards(r) = 0 THEN 48
                                  ELSE ShownParityShards(r)

C20_Witness ==
    /\ Reconstructed /\ level = "legacy"
    /\ \A r \in Extracted : ShownParityShards(r) = 0
    /\ err = "" /\ output.written /\ output.bytes = data

-----------------------------------------------------------------------------
(* Properties of the FrameConfig presets and of the FrameHeader *)

(* C29: the grid of the preset tiles the raster evenly: Width is a multiple *)
(* of MacroSize and Height - CalibrationHeight is a multiple of MacroSize.  *)
C29_GridTiles ==
    /\ FrameCfg.Width % FrameCfg.MacroSize = 0
    /\ (FrameCfg.Height - FrameCfg.CalibrationHeight) % FrameCfg.MacroSize = 0

\* the encoded FrameHeaders that the workers and the collector hold
HeadersBuilt ==
    {results[n].Pixels : n \in {k \in 1..Len(results) : results[k].Err = ""}}
        \cup {pending[i] : i \in DOMAIN pending}
        \cup {written[n] : n \in 1..Len(written)}

(* C30: in every header NewFrame builds, HasGlobal = 1 exactly when         *)
(* FrameIndex = 0, and GlobalOffset = FrameHeaderSizeBytes (18) exactly     *)
(* when HasGlobal = 1.                                                      *)
C30_HasGlobalFirstFrame ==
    \A outline \in HeadersBuilt :
        \E h \in {DecodeHeader(outline)} :
            /\ h.HasGlobal \in {0, 1}
            /\ h.HasGlobal = 1 <=> h.FrameIndex = 0
            /\ h.GlobalOffset = 18 <=> h.HasGlobal = 1

C30_Witness ==
    /\ pc = "encoded" /\ Len(written) >= 2
    /\ DecodeHeader(written[1]).HasGlobal = 1
    /\ DecodeHeader(written[1]).GlobalOffset = 18
    /\ DecodeHeader(written[2]).HasGlobal = 0
    /\ DecodeHeader(written[2]).GlobalOffset = 0

-----------------------------------------------------------------------------
(* Properties of the padding *)

\* the raster of frame n (0-based) of the video, rendered with the padding
\* pattern pad
RasterPadded(n, pad) ==
    drawFrameToBuffer(FrameCfg, Render(RenderedFrame(n), pad).pixels)

\* the padding patterns of another encode of the same payload
OtherPads == (0..(MaxPad + 1)) \ {rand}

(* C21: a frame rendered again from the same data with other padding bytes  *)
(* decodes to the same data, CRC verdict and error: nothing processFrame    *)
(* returns depends on a byte after the FrameHeader and the k + m shards of  *)
(* ceil(DataSize / k) bytes.                                                *)
C21_PaddingOpacity ==
    \A i \in DOMAIN resultsMap :
        \A pad \in OtherPads :
            \E other \in {processFrame(RasterPadded(i, pad + i),
                                       ConfiguredFor(RasterPadded(i, pad + i)),
                                       FALSE)} :
                /\ other.err = ""
                /\ other.data = resultsMap[i].data
                /\ other.crcOK = resultsMap[i].crcOK
                /\ other.header = resultsMap[i].frameHeader

-----------------------------------------------------------------------------
(* Properties of GET /batch *)

\* a step in which the master writes a response to GET /batch
BatchAnswered == cluster'.response # cluster.response

\* s is what is left of t after its first elements are taken
IsSuffix(s, t) ==
    /\ Len(s) <= Len(t)
    /\ s = SubSeq(t, Len(t) - Len(s) + 1, Len(t))

(* C22: GET /batch answers 202 and leaves the FIFO unchanged as long as     *)
(* StartDistribution has not been called, so that every job added is still  *)
(* in the FIFO; after the gate it answers 200 with jobs while the FIFO is   *)
(* not empty, and 204 only when the FIFO is empty and FinishAddingJobs has  *)
(* been called.                                                             *)
C22_OperatorGate ==
    [][/\ ~cluster'.running =>
            /\ cluster'.response.code \in {0, 202}
            /\ jobs' = emitted'
       /\ BatchAnswered =>
            /\ ~cluster.running =>
                  cluster'.response.code = 202 /\ jobs' = jobs
            /\ cluster.running /\ jobs # << >> =>
                  /\ cluster'.response.code = 200
                  /\ cluster'.response.batch # << >>
            /\ cluster'.response.code = 204 =>
                  cluster.running /\ jobs = << >> /\ "jobs" \in closed]_vars

\* a GET /batch was answered 202 before the gate, with jobs in the FIFO
C22_Witness ==
    /\ ~cluster.running /\ cluster.response.code = 202
    /\ jobs # << >> /\ jobs = emitted /\ "jobs" \in closed

(* C23: every 200 response to GET /batch carries between 1 and BatchSize    *)
(* jobs, which are the head of the FIFO, itself in the order of AddJob;     *)
(* the jobs left in the FIFO keep their order.                              *)
C23_BatchIsHead ==
    [][/\ IsSuffix(jobs', emitted')
       /\ BatchAnswered /\ cluster'.response.code = 200 =>
            /\ Len(cluster'.response.batch) \in 1..BatchSize
            /\ jobs = cluster'.response.batch \o jobs']_vars

\* a 200 response carried a full batch and left jobs in the FIFO
C23_Witness ==
    /\ cluster.response.code = 200
    /\ Len(cluster.response.batch) = BatchSize
    /\ jobs # << >>


\* fetchLoop has stopped on its failures (not on a 204)
GaveUp == cluster.stop /\ cluster.retries > FetchRetries

(* C25: fetchLoop gives up (sets stop and closes the job channel) after     *)
(* FetchRetries consecutive failed GET /batch: its count is the number of   *)
(* GETs that failed since the last response received from the master, any   *)
(* response resetting it, and when it has given up at least FetchRetries    *)
(* GETs have failed in a row.                                               *)
C25_ConsecutiveFailures ==
    /\ cluster.retries = cluster.failed
    /\ GaveUp => cluster.failed >= FetchRetries /\ "jobChan" \in closed


-----------------------------------------------------------------------------
(* Properties of the jobs handed out *)

\* the FrameIndex values of a sequence of jobs or of results
Indices(s) == {s[k].FrameIndex : k \in DOMAIN s}

\* the jobs that have left the FIFO in a 200 response
Handed == Indices(SubSeq(emitted, 1, Len(emitted) - Len(jobs)))

\* the jobs whose result has reached master.Results
Posted ==
    Indices(results) \cup DOMAIN pending \cup 0..(nextFrameIndex - 1)

\* the jobs the Worker still holds, as a job or as a result
InWorker ==
    Indices(cluster.jobChan) \cup Indices(cluster.resultChan)
        \cup Indices(cluster.buffer)
        \cup UNION {Indices(workers[w].job) : w \in DOMAIN workers}

(* C24: a job handed to a Worker in a 200 response is never put back in     *)
(* the FIFO nor handed out again (the FIFO is what is left of the jobs      *)
(* added once its head is taken), and when the result of a job handed out   *)
(* is posted nevermore (the Worker holds neither the job nor its result,    *)
(* and master.Results never had it) the collection loop of runMaster has    *)
(* not completed.                                                           *)
C24_NoRequeueAndBlocked ==
    /\ IsSuffix(jobs, emitted)
    /\ \A i, k \in DOMAIN emitted :
          emitted[i].FrameIndex = emitted[k].FrameIndex => i = k
    /\ (\E i \in Handed : i \notin Posted /\ i \notin InWorker) =>
          pc # "masterDone"


-----------------------------------------------------------------------------
(* Properties of the sendLoop *)

-----------------------------------------------------------------------------
(* Properties of the memory held by EncodeFile *)

\* the render workers that hold a macro-pixel buffer
Held == {w \in DOMAIN workers : workers[w].job # << >>}

\* the frames whose macro-pixel buffer is out of the pool
InFlight == Cardinality(Held) + Len(results) + Cardinality(DOMAIN pending)

(* C28: at every point of EncodeFile the frames whose macro-pixel buffer    *)
(* is held by a render worker, queued in the results channel or stored in   *)
(* the pending map are at most Threads + bufferSize.                        *)
C28_InFlightBound == InFlight <= Threads + bufferSize


-----------------------------------------------------------------------------
(* Properties of an EncodeFile that fails *)

\* EncodeFile has returned an error
Failed == pc = "done"

\* a render worker that waits for room in the results channel, which
\* nothing reads any more
StuckRenderer(w) ==
    /\ Failed /\ ~workers[w].exited /\ workers[w].job # << >>
    /\ Len(results) = bufferSize

\* the dispatcher waits for room in the jobs channel while every render
\* worker is stuck
StuckDispatcher ==
    /\ Failed /\ Len(emitted) < totalFrames /\ Len(jobs) = bufferSize
    /\ \A w \in DOMAIN workers : StuckRenderer(w)

(* C27: when a render worker or the write to the muxer reports an error,    *)
(* EncodeFile is cancelled: from then on no job is dispatched and no render *)
(* worker is sent a job, the pending macro-pixel buffers are back in the    *)
(* pool, the stdin of the muxer is closed, and neither the dispatcher nor   *)
(* a render worker waits for ever on a channel.                             *)
C27_ErrorCancels ==
    [][/\ Failed => emitted' = emitted /\ workers' = workers
       /\ pc' = "done" =>
            /\ "stdin" \in closed'
            /\ pending' = << >>
            /\ \A w \in DOMAIN workers : ~StuckRenderer(w)'
            /\ ~StuckDispatcher']_vars


-----------------------------------------------------------------------------
(* Properties of the checksum of a frame *)

\* the data region of the frame of header h: the chunk of its job, after
\* the GlobalHeader in frame 0
DataRegionOf(h) ==
    (IF h.FrameIndex = 0
     THEN EncodeGlobalHeader([OriginalSize |-> << 0, 0 >>,
                              TotalFrames |-> totalFrames])
     ELSE << >>)
        \o emitted[h.FrameIndex + 1].Data

(* C31: in every frame NewFrame builds, DataSize is the length of the data  *)
(* region (the GlobalHeader included in frame 0) and DataCRC is the CRC32   *)
(* of its first DataSize bytes.                                             *)
C31_DataCRC ==
    \A outline \in HeadersBuilt :
        \E h \in {DecodeHeader(outline)} :
            /\ h.DataSize = Len(DataRegionOf(h))
            /\ h.DataCRC = ChecksumIEEE(Slice(DataRegionOf(h), 0, h.DataSize))

\* a video is written whose frame 0 is full and has a frame after it
C31_Witness ==
    /\ pc = "encoded" /\ Len(written) >= 2
    /\ DecodeHeader(written[1]).DataSize
          = GlobalHeaderSizeBytes + capacityFrame0
    /\ DecodeHeader(written[2]).DataSize >= 1


(* Properties of the raster buffer a processLoop reuses *)

\* the job of frame index as the master cut it from the payload
DrawnJob(index) ==
    [FrameIndex |-> index,
     Data |-> MasterJobData(Payload(ShortestOf(totalFrames, capacityFrame0,
                                               capacityOthers), 0),
                            index, capacityFrame0, capacityOthers)]

\* the raster of frame index drawn on a buffer that held no frame before
RasterAlone(index) ==
    LET job == DrawnJob(index)
        frame == NewFrame(FrameCfg, ECCCfg, index, job.Data, totalFrames)
    IN  WorkerDraw(NewRGBA(FrameCfg), FrameCfg,
                   Render(frame, rand + index).pixels,
                   Len(allBytes(frame, rand + index)))

(* C32: the FrameResult of index i holds the raster of frame i alone, no    *)
(* pixel of a frame the processLoop drew before on the same img, in every   *)
(* interleaving of the processLoops.                                        *)
C32_RasterAlone ==
    \A n \in 1..Len(cluster.resultChan) :
        \E result \in {cluster.resultChan[n]} :
            result.Error = ""
                => result.CompressedPixels = RasterAlone(result.FrameIndex)

\* one processLoop drew two frames on its img, the other one drew a frame too
C32_Witness ==
    /\ pc = "processLoop"
    /\ Len(cluster.resultChan) = 3
    /\ \A n \in 1..3 : cluster.resultChan[n].Error = ""
    /\ \E w \in 1..2 :
          /\ workers[w].img = cluster.resultChan[3].CompressedPixels
          /\ workers[w].img # cluster.resultChan[2].CompressedPixels
          /\ workers[3 - w].img = cluster.resultChan[1].CompressedPixels
          /\ workers[w].img # NewRGBA(FrameCfg)


(* The cluster against EncodeFile *)

\* the payload the jobs of SpecDraw were cut from
DrawnPayload ==
    Payload(ShortestOf(totalFrames, capacityFrame0, capacityOthers), 0)

\* the raster EncodeFile writes for frame index of the same payload
LocalRaster(index) ==
    drawFrameToBuffer(
        FrameCfg,
        Render(NewFrame(FrameCfg, ECCCfg, index,
                        DispatcherJobData(DrawnPayload, index,
                                          capacityFrame0, capacityOthers),
                        FrameCount(Len(DrawnPayload), capacityFrame0,
                                   capacityOthers)),
               rand + index).pixels)

C33_OpaqueFailure ==
    (pc = "decrypted" /\ err # "") => err = OpaqueError


(* Properties of the end of EncodeFile *)

\* EncodeFile has returned with every raster written and nothing pending
EncodedAll ==
    /\ pc = "encoded" /\ err = ""
    /\ Len(written) = totalFrames
    /\ DOMAIN pending = {}

(* C34: without renderer and muxer errors EncodeFile terminates in every    *)
(* interleaving of dispatcher, render workers and collector, and it ends    *)
(* with exactly TotalFrames rasters written and an empty pending map.       *)
C34_Terminates ==
    /\ <>(pc = "encoded")
    /\ [](pc = "encoded" => EncodedAll)

\* an EncodeFile of more frames than the channels hold has come to its end
C34_Witness ==
    /\ EncodedAll
    /\ totalFrames > bufferSize
    /\ \A w \in 1..Threads : workers[w].exited


(* Properties of the end of Worker.Run *)

\* every frame of the job has been rendered and its result is at the master
WorkDone ==
    /\ cluster.response.code = 204
    /\ cluster.jobChan = << >> /\ cluster.resultChan = << >>
    /\ cluster.buffer = << >>
    /\ \A w \in 1..Threads : workers[w].job = << >>
    /\ Indices(results) = 0..(totalFrames - 1)

(* wg.Wait() of Worker.Run is over: fetchLoop has returned (jobChan is      *)
(* closed by its defer), every processLoop has left its range loop, and     *)
(* sendLoop has returned, which it does only when it receives from a        *)
(* closed resultChan.                                                       *)
RunReturned ==
    /\ cluster.stop /\ "jobChan" \in closed
    /\ \A w \in 1..Threads : workers[w].exited
    /\ "resultChan" \in closed /\ cluster.resultChan = << >>

(* C35: once the master has answered 204 and the result of every job the    *)
(* worker fetched is posted, Worker.Run returns in the end: fetchLoop, the  *)
(* processLoops and sendLoop all terminate.                                 *)
C35_RunReturns == WorkDone ~> RunReturned


(* Properties of the results a Worker holds *)

\* the results the Worker holds, rendered and not yet accepted by the master
HeldResults == Indices(cluster.resultChan) \cup Indices(cluster.buffer)

(* C36: a Worker drops no rendered result: whatever the outcome of a POST   *)
(* /batch, each result leaves resultChan and the buffer of sendLoop only    *)
(* when handlePostBatch has put it in master.Results.                       *)
C36_ResultsKept ==
    [][\A i \in HeldResults : i \in HeldResults' \/ i \in Indices(results')]_vars


(* Properties of the FIFO under concurrent requests *)

RECURSIVE Flat(_)
\* the batches of a sequence of 200 responses end to end
Flat(batches) ==
    IF batches = << >> THEN << >> ELSE Head(batches) \o Flat(Tail(batches))

\* the jobs handed out so far, in the 200 responses of both Workers
HandedOut == Flat(workers[1].got) \o Flat(workers[2].got)

(* C37: however GET /batch requests and AddJob calls interleave, each job   *)
(* added is in the FIFO or in exactly one 200 response, never in two and    *)
(* never in none, and once every Worker has been answered 204 each job      *)
(* added has been handed out.                                               *)
C37_ExactlyOnce ==
    /\ Len(HandedOut) + Len(jobs) = Len(emitted)
    /\ Indices(HandedOut) \cup Indices(jobs) = Indices(emitted)
    /\ \A k \in 1..Threads : \A n \in DOMAIN workers[k].got :
          workers[k].got[n] # << >>
    /\ (\A k \in 1..Threads : workers[k].code = 204) =>
          /\ Len(emitted) = totalFrames
          /\ Indices(HandedOut) = 0..(totalFrames - 1)

\* both Workers were handed jobs while jobs were still being added
C37_Witness ==
    /\ \A k \in 1..Threads : workers[k].code = 204
    /\ \A k \in 1..Threads : workers[k].got # << >>
    /\ Len(workers[1].got) + Len(workers[2].got) = totalFrames
    /\ totalFrames = MaxFrames


-----------------------------------------------------------------------------
(* Properties of the decode workers on the shared FrameConfig *)

\* the result of fr.processFrame on the raster of frame `index`, from the
\* configuration the reconstructor was built with
AloneResult(index) ==
    processFrame(framePaths[index + 1].img,
                 PresetFrameConfig(ReconstructorPreset), FALSE)

(* C38: whatever the interleaving of the decode workers, the bytes and the  *)
(* error a worker returns for a frame are those that processFrame gives for *)
(* the raster of that frame from the reconstructor's initial configuration. *)
C38_InterleavingFree ==
    pc = "decode" =>
        \A n \in 1..Len(results) :
            \E r \in {results[n]} :
            \E ref \in {AloneResult(r.index)} :
                r.data = ref.data /\ r.err = ref.err


-----------------------------------------------------------------------------
(* Properties of the master's progress counters *)

\* handleStatus: "pending", the jobs in the FIFO
PendingJobs == Len(jobs)

(* C40: in every state of the master, JobsCompleted <= JobsSent <=          *)
(* TotalFrames and JobsSent plus the jobs pending in the FIFO is at most    *)
(* TotalFrames.                                                             *)
C40_CountersOrdered ==
    /\ cluster.JobsCompleted <= cluster.JobsSent
    /\ cluster.JobsSent <= totalFrames
    /\ cluster.JobsSent + PendingJobs <= totalFrames

=============================================================================
